---------------------------- MODULE Spec2Model ----------------------------
(***************************************************************************)
(* A model of google-form-builder: the type/option tokenizer               *)
(* (parsers.py, BaseParser._parse_type_and_options), the Question model    *)
(* and its validators (models.py), the JSON path (JSONParser.parse), the   *)
(* tabular adapter (CSVParser._parse_dataframe), the remote-spreadsheet    *)
(* adapter (SheetsParser), the Forms and Drive client (forms_api.py) and   *)
(* the methods of FormBuilder that tie them together (app.py).             *)
(*                                                                         *)
(* A Python str is a sequence of one-character strings; Chars turns a      *)
(* literal into that form.                                                 *)
(***************************************************************************)
EXTENDS Integers, Sequences, FiniteSets, TLC

VARIABLES
    tok_in,      \* _parse_type_and_options: the argument type_str
    tok_out,     \* _parse_type_and_options: the returned pair, or NotRun
    nt_base,     \* normalize_type: the lower-case, trimmed name the input was built from
    nt_in,       \* normalize_type: the argument v
    nt_out,      \* normalize_type: the returned value, or NotRun
    q_in,        \* Question(...): the keyword arguments
    q_out,       \* Question(...): the constructed object or the exception, or NotRun
    js_data,     \* JSONParser.parse: the value json.load returned
    js_pc,       \* JSONParser.parse: position in the method
    js_i,        \* JSONParser.parse: the loop index i (0-based)
    js_questions,\* JSONParser.parse: the list questions
    js_result,   \* JSONParser.parse: the returned FormData or the raised error
    df_title,    \* _parse_dataframe: the argument title
    df_columns,  \* _parse_dataframe: df.columns
    df_rows,     \* _parse_dataframe: the data rows of df, in index order
    df_pc,       \* _parse_dataframe: position in the method
    df_idx,      \* _parse_dataframe: the loop variable idx (0-based RangeIndex label)
    df_questions,\* _parse_dataframe: the list questions
    df_kept,     \* history: the idx of every row whose Question was appended
    df_args,     \* history: the keyword arguments of every call of Question(...)
    df_result,   \* _parse_dataframe: the returned FormData or the raised error
    det_source,  \* detect_input_type: the argument source
    det_file,    \* detect_input_type: what the file system holds under source
    det_out,     \* detect_input_type: the returned input type, or NotRun
    sid_source,  \* SheetsParser.parse: the argument source
    sid_pc,      \* SheetsParser.parse: position in the method
    sid_key,     \* SheetsParser.parse: the local sheet_id, None before it is set
    sid_calls,   \* history: the calls made to the gspread collaborator
    sid_result,  \* SheetsParser.parse: the returned FormData or the raised error
    req_question,\* _create_question_request: the argument question
    req_index,   \* _create_question_request: the argument index
    req_out,     \* _create_question_request: the returned request or the exception
    api_form,    \* GoogleFormsAPI.create_form: the argument form_data
    api_folder_id,  \* create_form: the argument folder_id
    api_new_folder, \* create_form: the argument new_folder
    api_pc,      \* create_form: position in the method
    api_parts,   \* create_form: the folder_parts not yet visited
    api_parent,  \* create_form: the local current_parent
    api_target,  \* create_form: the local target_folder_id
    api_calls,   \* history: the requests executed at the Forms and Drive services
    api_remote,  \* the form held by the Forms service, None while there is none
    api_result,  \* create_form: the returned dictionary or the raised error
    auth_env,    \* GoogleFormsAPI(...): the files and services the constructor meets
    auth_out,    \* GoogleFormsAPI(...): the client built or the raised error, or NotRun
    app_op,      \* FormBuilder: the method called (parse_input, validate_input, create_form)
    app_source,  \* FormBuilder: the argument source
    app_file,    \* what the file system holds under source
    app_hint,    \* FormBuilder: the argument input_type
    app_title,   \* create_form: the argument title
    app_description, \* create_form: the argument description
    app_pc,      \* FormBuilder: position in the method
    app_type,    \* parse_input: the local input_type after detection, "" before
    app_parsed,  \* parse_input: the returned FormData or the raised error
    app_result   \* FormBuilder: what the method returned or raised

tokVars  == <<tok_in, tok_out>>
ntVars   == <<nt_base, nt_in, nt_out>>
qVars    == <<q_in, q_out>>
jsVars   == <<js_data, js_pc, js_i, js_questions, js_result>>
dfVars   == <<df_title, df_columns, df_rows, df_pc, df_idx, df_questions, df_kept, df_args,
              df_result>>
detVars  == <<det_source, det_file, det_out>>
\* the parsers and the model classes
parseVars == <<tokVars, ntVars, qVars, jsVars, dfVars>>
\* the application and the remote services
sidVars  == <<sid_source, sid_pc, sid_key, sid_calls, sid_result>>
reqVars  == <<req_question, req_index, req_out>>
apiVars  == <<api_form, api_folder_id, api_new_folder, api_pc, api_parts, api_parent,
              api_target, api_calls, api_remote, api_result>>
authVars == <<auth_env, auth_out>>
topVars  == <<app_op, app_source, app_file, app_hint, app_title, app_description, app_pc,
              app_type, app_parsed, app_result>>
appVars  == <<detVars, sidVars, reqVars, apiVars, authVars, topVars>>
vars     == <<parseVars, appVars>>

-----------------------------------------------------------------------------
(* Bounds of the model *)

\* longest string of the tokenizer's alphabet that is enumerated
MaxStrLen == 4
\* longest options list handed to Question(...)
MaxOptions == 2
\* most elements of a JSON array
MaxItems == 2
\* most data rows of a table
MaxRows == 2

-----------------------------------------------------------------------------
(* Strings *)

Chars(s) == [i \in 1..Len(s) |-> SubSeq(s, i, i)]

SP    == " "
COMMA == ","
COLON == ":"
DQ    == "\""
SQ    == "'"

\* Values of more than one Python type are records with a tag.
NotRun  == [tag |-> "NotRun"]     \* the operation has not run yet
None    == [tag |-> "None"]       \* Python's None
Missing == [tag |-> "Missing"]    \* a keyword argument / key that is not given
Str(s)  == [tag |-> "str", v |-> s]
List(l) == [tag |-> "list", v |-> l]

\* str.isspace for the characters the model uses
IsSpace(c) == c \in {" ", "\t", "\n", "\r"}

RECURSIVE LStrip(_)
LStrip(s) ==
    IF s = <<>> THEN s
    ELSE IF IsSpace(Head(s)) THEN LStrip(Tail(s)) ELSE s

RECURSIVE RStrip(_)
RStrip(s) ==
    IF s = <<>> THEN s
    ELSE IF IsSpace(s[Len(s)]) THEN RStrip(SubSeq(s, 1, Len(s) - 1)) ELSE s

\* str.strip()
Strip(s) == RStrip(LStrip(s))

UpperLetters == Chars("ABCDEFGHIJKLMNOPQRSTUVWXYZ")
LowerLetters == Chars("abcdefghijklmnopqrstuvwxyz")

UpperSet == {UpperLetters[k] : k \in 1..26}
LowerSet == {LowerLetters[k] : k \in 1..26}

LowerChar(c) ==
    IF c \in UpperSet
    THEN LowerLetters[CHOOSE k \in 1..26 : UpperLetters[k] = c]
    ELSE c

UpperChar(c) ==
    IF c \in LowerSet
    THEN UpperLetters[CHOOSE k \in 1..26 : LowerLetters[k] = c]
    ELSE c

\* str.lower()
Lower(s) == [i \in 1..Len(s) |-> LowerChar(s[i])]
\* str.upper(), used to build inputs only
Upper(s) == [i \in 1..Len(s) |-> UpperChar(s[i])]

\* every string over alphabet A of length at most n
StringsUpTo(A, n) == UNION {[1..k -> A] : k \in 0..n}

-----------------------------------------------------------------------------
(* models.py: QuestionType *)

SHORT_ANSWER    == Chars("short answer")
PARAGRAPH       == Chars("paragraph")
MULTIPLE_CHOICE == Chars("multiple choice")
CHECKBOXES      == Chars("checkboxes")
DROPDOWN        == Chars("dropdown")

\* the members, in definition order
QuestionType == <<SHORT_ANSWER, PARAGRAPH, MULTIPLE_CHOICE, CHECKBOXES, DROPDOWN>>

-----------------------------------------------------------------------------
(* parsers.py: BaseParser._parse_type_and_options *)

Quotes == {DQ, SQ}
\* quote_char = None
NoQuote == "None"

\* line 60: not in_quotes and char in ['"', "'"]
OpensQuote(in_quotes, char) == ~in_quotes /\ char \in Quotes

ClosesQuote_AnyQuote(in_quotes, quote_char, char) == in_quotes /\ char \in Quotes

\* line 63: in_quotes and char == quote_char
ClosesQuote(in_quotes, quote_char, char) == in_quotes /\ char = quote_char

\* line 66: not in_quotes and char == ','
IsSeparator(in_quotes, char) == ~in_quotes /\ char = COMMA

\* lines 70-73 and 86-89: remove surrounding quotes if present; option is
\* non-empty here.  option[1:-1] of a one-character string is the empty string.
StripQuotes(option) ==
    IF Head(option) = DQ /\ option[Len(option)] = DQ
    THEN SubSeq(option, 2, Len(option) - 1)
    ELSE IF Head(option) = SQ /\ option[Len(option)] = SQ
         THEN SubSeq(option, 2, Len(option) - 1)
         ELSE option

\* lines 67-74 and 84-90: append the current option unless it is blank
FlushOption(options, current_option) ==
    IF Strip(current_option) # <<>>
    THEN Append(options, Strip(StripQuotes(Strip(current_option))))
    ELSE options

\* lines 52-90: the scan of options_str; i is the 1-based position
RECURSIVE ScanOptions(_, _, _, _, _, _)
ScanOptions(options_str, i, current_option, in_quotes, quote_char, options) ==
    IF i > Len(options_str)
    THEN FlushOption(options, current_option)
    ELSE LET char == options_str[i] IN
         IF OpensQuote(in_quotes, char)
         THEN ScanOptions(options_str, i + 1, current_option, TRUE, char, options)
         ELSE IF ClosesQuote(in_quotes, quote_char, char)
         THEN ScanOptions(options_str, i + 1, current_option, FALSE, NoQuote, options)
         ELSE IF IsSeparator(in_quotes, char)
         THEN ScanOptions(options_str, i + 1, <<>>, in_quotes, quote_char,
                          FlushOption(options, current_option))
         ELSE ScanOptions(options_str, i + 1, Append(current_option, char),
                          in_quotes, quote_char, options)

\* lines 49-50: options = [] ; if options_str: ...
ParseOptions(options_str) ==
    IF options_str = <<>> THEN <<>>
    ELSE ScanOptions(options_str, 1, <<>>, FALSE, NoQuote, <<>>)

\* position of the first occurrence of c in s from position i on, 0 if none
RECURSIVE Find(_, _, _)
Find(s, c, i) ==
    IF i > Len(s) THEN 0
    ELSE IF s[i] = c THEN i ELSE Find(s, c, i + 1)

\* position of the last occurrence of c in s, 0 if none
RECURSIVE RFind(_, _, _)
RFind(s, c, i) ==
    IF i < 1 THEN 0
    ELSE IF s[i] = c THEN i ELSE RFind(s, c, i - 1)

SplitColon_Last(type_str) ==
    LET k == RFind(type_str, COLON, Len(type_str))
    IN  <<SubSeq(type_str, 1, k - 1), SubSeq(type_str, k + 1, Len(type_str))>>

\* line 44: type_str.split(':', 1), for a type_str that contains ':'
SplitColon(type_str) ==
    LET k == Find(type_str, COLON, 1)
    IN  <<SubSeq(type_str, 1, k - 1), SubSeq(type_str, k + 1, Len(type_str))>>

\* lines 36-92; every caller passes a str, and `not type_str` is then
\* "type_str is the empty string"
ParseTypeAndOptions(type_str) ==
    IF type_str = <<>>
    THEN [tag |-> "pair", type |-> MULTIPLE_CHOICE, options |-> <<>>]
    ELSE LET stripped == Strip(type_str) IN
         IF Find(stripped, COLON, 1) = 0
         THEN [tag |-> "pair", type |-> stripped, options |-> <<>>]
         ELSE LET parts == SplitColon(stripped) IN
              [tag     |-> "pair",
               type    |-> Strip(parts[1]),
               options |-> ParseOptions(Strip(parts[2]))]

-----------------------------------------------------------------------------
(* models.py: Question and its validators.                                 *)
(*                                                                         *)
(* pydantic validates the fields in declaration order (question,           *)
(* description, type, options).  A field whose keyword is not given takes  *)
(* its default and its validators do not run (no validator is declared     *)
(* always=True).  A validator that raises ValueError, TypeError or         *)
(* AssertionError adds an error to the ValidationError raised at the end;  *)
(* any other exception leaves the constructor at once.  With               *)
(* use_enum_values the validated type is stored as the member's value, a   *)
(* plain str; the default, which is not validated, stays the enum member.  *)
(***************************************************************************)

Enum(value) == [tag |-> "enum", v |-> value]

\* a message: a format and the text put into it
Msg(fmt, arg) == [fmt |-> fmt, arg |-> arg]

Raise(exc, errors) == [tag |-> "raise", exc |-> exc, errors |-> errors]

CleanTypeName_NoLower(v) == Strip(v)

\* line 45: v.strip().lower()
CleanTypeName(v) == Lower(Strip(v))

\* lines 47-56: the keys of type_mapping
K_text         == Chars("text")
K_short_answer == Chars("short_answer")
K_long_answer  == Chars("long_answer")
K_textarea     == Chars("textarea")
K_radio        == Chars("radio")
K_select       == Chars("select")
K_checkbox     == Chars("checkbox")
K_multi_select == Chars("multi_select")

TypeMappingKeys ==
    {K_text, K_short_answer, K_long_answer, K_textarea,
     K_radio, K_select, K_checkbox, K_multi_select}

\* lines 47-56: type_mapping[v]
TypeMapping(v) ==
    CASE v = K_text         -> SHORT_ANSWER
      [] v = K_short_answer -> SHORT_ANSWER
      [] v = K_long_answer  -> PARAGRAPH
      [] v = K_textarea     -> PARAGRAPH
      [] v = K_radio        -> MULTIPLE_CHOICE
      [] v = K_select       -> DROPDOWN
      [] v = K_checkbox     -> CHECKBOXES
      [] v = K_multi_select -> CHECKBOXES

\* lines 62-64: the first member whose value is v, from member k on
RECURSIVE ExactMatch(_, _)
ExactMatch(v, k) ==
    IF k > Len(QuestionType) THEN None
    ELSE IF v = QuestionType[k] THEN Enum(QuestionType[k])
    ELSE ExactMatch(v, k + 1)

\* lines 41-69: the pre-validator of type; v is a tagged value
NormalizeType(v) ==
    IF v.tag = "str"
    THEN LET name == CleanTypeName(v.v) IN
         IF name \in TypeMappingKeys
         THEN Enum(TypeMapping(name))
         ELSE IF ExactMatch(name, 1) # None
         THEN ExactMatch(name, 1)
         ELSE Enum(MULTIPLE_CHOICE)
    ELSE v

\* the outcome of validating one field
Ok(value)              == [tag |-> "ok", v |-> value]
FieldError(loc, m)     == [tag |-> "error", loc |-> loc, msg |-> m]
Propagate(exc, m)      == [tag |-> "propagate", exc |-> exc, msg |-> m]

QuestionMustNotBeEmpty_NoStrip(v) ==
    IF Strip(v) = <<>>
    THEN FieldError("question", Msg("Question cannot be empty", <<>>))
    ELSE Ok(v)

\* lines 27-32
QuestionMustNotBeEmpty(v) ==
    IF Strip(v) = <<>>
    THEN FieldError("question", Msg("Question cannot be empty", <<>>))
    ELSE Ok(Strip(v))

\* line 22: a required str of min_length 1, then the validator
QuestionField(v) ==
    IF v.tag = "Missing"
    THEN FieldError("question", Msg("field required", <<>>))
    ELSE IF v.tag = "None"
    THEN FieldError("question", Msg("none is not an allowed value", <<>>))
    ELSE IF Len(v.v) < 1
    THEN FieldError("question",
                    Msg("ensure this value has at least 1 characters", <<>>))
    ELSE QuestionMustNotBeEmpty(v.v)

\* lines 34-39
CleanDescription(v) == IF v.tag = "None" THEN <<>> ELSE Strip(v.v)

\* line 23: Optional[str], default ""
DescriptionField(v) ==
    IF v.tag = "Missing" THEN Ok(<<>>) ELSE Ok(CleanDescription(v))

\* line 24: the pre-validator, then the enum validation; use_enum_values
\* (line 96) stores the member's value.  Default: the member MULTIPLE_CHOICE.
TypeField(v) ==
    IF v.tag = "Missing" THEN Ok(Enum(MULTIPLE_CHOICE))
    ELSE LET n == NormalizeType(v) IN
         IF n.tag = "enum" THEN Ok(Str(n.v))
         ELSE IF n.tag = "None"
         THEN FieldError("type", Msg("none is not an allowed value", <<>>))
         ELSE FieldError("type",
                         Msg("value is not a valid enumeration member", <<>>))

RequiresOptions_NotMultipleChoice(question_type) ==
    /\ question_type.tag \in {"enum", "str"}
    /\ question_type.v \in {CHECKBOXES, DROPDOWN}

\* line 76: question_type in [MULTIPLE_CHOICE, CHECKBOXES, DROPDOWN]; a member
\* of the str-mixin enum equals the plain str of its value
RequiresOptions(question_type) ==
    /\ question_type.tag \in {"enum", "str"}
    /\ question_type.v \in {MULTIPLE_CHOICE, CHECKBOXES, DROPDOWN}

\* lines 78 and 87: raise ValueError(f'{question_type.value} ...').  A plain
\* str has no attribute value: evaluating the message raises AttributeError,
\* which pydantic does not turn into a validation error.
RaiseNamingType(question_type, fmt) ==
    IF question_type.tag = "enum"
    THEN FieldError("options", Msg(fmt, question_type.v))
    ELSE Propagate("AttributeError",
                   Msg("'str' object has no attribute 'value'", <<>>))

\* lines 81-84
RECURSIVE CleanedOptions(_)
CleanedOptions(v) ==
    IF v = <<>> THEN <<>>
    ELSE (IF Strip(Head(v)) # <<>> THEN <<Strip(Head(v))>> ELSE <<>>)
         \o CleanedOptions(Tail(v))

\* lines 71-92; question_type is values.get('type'): None when the type
\* field failed
ValidateOptions(v, question_type) ==
    IF RequiresOptions(question_type)
    THEN IF v.tag = "None" \/ Len(v.v) = 0
         THEN RaiseNamingType(question_type,
                              "{} questions must have at least one option")
         ELSE IF CleanedOptions(v.v) = <<>>
         THEN RaiseNamingType(question_type,
                              "{} questions must have at least one valid option")
         ELSE Ok(List(CleanedOptions(v.v)))
    ELSE Ok(None)

\* line 25: Optional[List[str]], default None
OptionsField(v, question_type) ==
    IF v.tag = "Missing" THEN Ok(None) ELSE ValidateOptions(v, question_type)

ErrorsOf(r) == IF r.tag = "error" THEN <<[loc |-> r.loc, msg |-> r.msg]>> ELSE <<>>

\* lines 19-96: Question(**kw)
NewQuestion(kw) ==
    LET rq == QuestionField(kw.question)
        rd == DescriptionField(kw.description)
        rt == TypeField(kw.type)
        ro == OptionsField(kw.options, IF rt.tag = "ok" THEN rt.v ELSE None)
        errors == ErrorsOf(rq) \o ErrorsOf(rd) \o ErrorsOf(rt) \o ErrorsOf(ro)
    IN  IF ro.tag = "propagate"
        THEN Raise(ro.exc, <<[loc |-> "options", msg |-> ro.msg]>>)
        ELSE IF errors # <<>>
        THEN Raise("ValidationError", errors)
        ELSE [tag         |-> "Question",
              question    |-> rq.v,
              description |-> rd.v,
              type        |-> rt.v,
              options     |-> ro.v]

Kw(q, d, t, o) == [question |-> q, description |-> d, type |-> t, options |-> o]

-----------------------------------------------------------------------------
(* models.py: FormData *)

UntitledForm == Chars("Untitled Form")

\* lines 106-109
CleanTitle(v) == IF v # <<>> THEN Strip(v) ELSE UntitledForm

QuestionsField_NoMin(v) == Ok(v)

\* lines 104, 116-121: min_items=1, then the validator
QuestionsField(v) ==
    IF Len(v) < 1
    THEN FieldError("questions", Msg("ensure this value has at least 1 items", <<>>))
    ELSE Ok(v)

\* lines 99-121: FormData(title=title, questions=questions); description is
\* not given and keeps its default ""
NewFormData(title, questions) ==
    LET rq == QuestionsField(questions) IN
    IF rq.tag = "error"
    THEN Raise("ValidationError", ErrorsOf(rq))
    ELSE [tag         |-> "FormData",
          title       |-> CleanTitle(title),
          description |-> <<>>,
          questions   |-> rq.v]

-----------------------------------------------------------------------------
(* parsers.py: the errors the parsers raise *)

\* raise exc(fmt.format(pos, cause)): pos is the number put into the message
\* (0 when the message has none), cause the exception whose text is put into
\* it (None when the message has none)
RaiseAt(exc, fmt, pos, cause) ==
    [tag |-> "raise", exc |-> exc, fmt |-> fmt, pos |-> pos, cause |-> cause]

-----------------------------------------------------------------------------
(* parsers.py: JSONParser.parse *)

\* file_path.stem of the source, and the title made of it (line 133)
JsStem  == Chars("questions")
JsTitle == Chars("Form from ") \o JsStem

\* lines 108-119: the file is opened and loaded, the top-level value checked
JsLoad ==
    /\ js_pc = "start"
    /\ IF js_data.tag = "nofile"
       THEN /\ js_result' = RaiseAt("FileNotFoundError", "JSON file not found: {}", 0, None)
            /\ js_pc' = "done"
       ELSE IF js_data.tag = "badjson"
       THEN /\ js_result' = RaiseAt("ValueError", "Invalid JSON format: {}", 0, None)
            /\ js_pc' = "done"
       ELSE IF js_data.tag # "list"
       THEN /\ js_result' = RaiseAt("ValueError", "JSON must contain a list of questions", 0, None)
            /\ js_pc' = "done"
       ELSE /\ js_pc' = "loop"
            /\ UNCHANGED js_result
    /\ UNCHANGED <<js_data, js_i, js_questions, tokVars, ntVars, qVars, dfVars, appVars>>

JsPosition_ZeroBased(i) == i

\* lines 124, 130: i+1
JsPosition(i) == i + 1

\* lines 122-130: one iteration of the loop over data
JsItem ==
    /\ js_pc = "loop"
    /\ js_i < Len(js_data.v)
    /\ LET item == js_data.v[js_i + 1] IN
       IF item.tag # "dict"
       THEN /\ js_result' = RaiseAt("ValueError", "Question {} must be an object",
                                    JsPosition(js_i), None)
            /\ js_pc' = "done"
            /\ UNCHANGED <<js_i, js_questions>>
       ELSE LET question == NewQuestion(item.kw) IN
            IF question.tag = "raise"
            THEN /\ js_result' = RaiseAt("ValueError", "Error parsing question {}: {}",
                                         JsPosition(js_i), question)
                 /\ js_pc' = "done"
                 /\ UNCHANGED <<js_i, js_questions>>
            ELSE /\ js_questions' = Append(js_questions, question)
                 /\ js_i' = js_i + 1
                 /\ UNCHANGED <<js_pc, js_result>>
    /\ UNCHANGED <<js_data, tokVars, ntVars, qVars, dfVars, appVars>>

\* lines 132-135
JsReturn ==
    /\ js_pc = "loop"
    /\ js_i = Len(js_data.v)
    /\ js_result' = NewFormData(JsTitle, js_questions)
    /\ js_pc' = "done"
    /\ UNCHANGED <<js_data, js_i, js_questions, tokVars, ntVars, qVars, dfVars, appVars>>

-----------------------------------------------------------------------------
(* parsers.py: CSVParser._parse_dataframe *)

\* the column names (lines 168, 178, 183-184, 188) and str() of a missing cell
COL_QUESTION    == Chars("question")
COL_DESCRIPTION == Chars("description")
COL_TYPE        == Chars("type")
NAN_TEXT        == Chars("nan")

\* a cell pandas read as missing
NaN == [tag |-> "NaN"]

\* str(cell)
PyStr(cell) == IF cell.tag = "NaN" THEN NAN_TEXT ELSE cell.v

NormalizedColumns_NoStrip(columns) == [c \in 1..Len(columns) |-> Lower(columns[c])]

\* line 165: df.columns.str.strip().str.lower()
NormalizedColumns(columns) == [c \in 1..Len(columns) |-> Lower(Strip(columns[c]))]

ColumnSet(columns) == {columns[c] : c \in 1..Len(columns)}

\* line 168
RequiredCols == {COL_QUESTION, COL_TYPE}

\* row[name], for a name that is one of the columns
Cell(columns, row, name) == row[CHOOSE c \in 1..Len(columns) : columns[c] = name]

IsNan(text) == Lower(text) = NAN_TEXT

SkipRow_NoNan(question_text) == question_text = <<>>

\* line 179: not question_text or question_text.lower() == 'nan'
SkipRow(question_text) == question_text = <<>> \/ IsNan(question_text)

\* lines 182-186
RowDescription(columns, row) ==
    IF COL_DESCRIPTION \in ColumnSet(columns)
    THEN LET desc == Strip(PyStr(Cell(columns, row, COL_DESCRIPTION))) IN
         IF ~IsNan(desc) THEN desc ELSE <<>>
    ELSE <<>>

RowArgs_KeepEmptyList(columns, row) ==
    LET question_text == Strip(PyStr(Cell(columns, row, COL_QUESTION)))
        type_str      == Strip(PyStr(Cell(columns, row, COL_TYPE)))
        parsed        == ParseTypeAndOptions(type_str)
    IN  Kw(Str(question_text),
           Str(RowDescription(columns, row)),
           Str(parsed.type),
           List(parsed.options))

\* lines 178-196: the keyword arguments of Question(...) for a row that is
\* not skipped
RowArgs(columns, row) ==
    LET question_text == Strip(PyStr(Cell(columns, row, COL_QUESTION)))
        type_str      == Strip(PyStr(Cell(columns, row, COL_TYPE)))
        parsed        == ParseTypeAndOptions(type_str)
    IN  Kw(Str(question_text),
           Str(RowDescription(columns, row)),
           Str(parsed.type),
           IF parsed.options # <<>> THEN List(parsed.options) ELSE None)

\* lines 191-196: the Question of a row that is not skipped
RowQuestion(columns, row) == NewQuestion(RowArgs(columns, row))

RowNumber_ZeroBased(idx) == idx

\* line 200: idx+1
RowNumber(idx) == idx + 1

\* line 160: the title argument CSVParser.parse passes
DfTitle == Chars("Form from data")

\* lines 164-173
DfStart ==
    /\ df_pc = "start"
    /\ df_columns' = NormalizedColumns(df_columns)
    /\ IF ~(RequiredCols \subseteq ColumnSet(df_columns'))
       THEN /\ df_result' = [tag     |-> "raise",
                             exc     |-> "ValueError",
                             fmt     |-> "Missing required columns: {}",
                             missing |-> RequiredCols \ ColumnSet(df_columns')]
            /\ df_pc' = "done"
       ELSE /\ df_pc' = "loop"
            /\ UNCHANGED df_result
    /\ UNCHANGED <<df_title, df_rows, df_idx, df_questions, df_kept, df_args,
                   tokVars, ntVars, qVars, jsVars, appVars>>

\* lines 176-200: one iteration of the loop over df.iterrows()
DfRow ==
    /\ df_pc = "loop"
    /\ df_idx < Len(df_rows)
    /\ LET row           == df_rows[df_idx + 1]
           question_text == Strip(PyStr(Cell(df_columns, row, COL_QUESTION)))
       IN  IF SkipRow(question_text)
           THEN /\ df_idx' = df_idx + 1
                /\ UNCHANGED <<df_pc, df_questions, df_kept, df_args, df_result>>
           ELSE LET question == RowQuestion(df_columns, row) IN
                /\ df_args' = Append(df_args, RowArgs(df_columns, row))
                /\ IF question.tag = "raise"
                   THEN /\ df_result' = RaiseAt("ValueError", "Error parsing row {}: {}",
                                                RowNumber(df_idx), question)
                        /\ df_pc' = "done"
                        /\ UNCHANGED <<df_idx, df_questions, df_kept>>
                   ELSE /\ df_questions' = Append(df_questions, question)
                        /\ df_kept' = Append(df_kept, df_idx)
                        /\ df_idx' = df_idx + 1
                        /\ UNCHANGED <<df_pc, df_result>>
    /\ UNCHANGED <<df_title, df_columns, df_rows, tokVars, ntVars, qVars, jsVars, appVars>>

\* lines 202-205
DfReturn ==
    /\ df_pc = "loop"
    /\ df_idx = Len(df_rows)
    /\ df_result' =
           IF df_questions = <<>>
           THEN RaiseAt("ValueError", "No valid questions found in the data", 0, None)
           ELSE NewFormData(df_title, df_questions)
    /\ df_pc' = "done"
    /\ UNCHANGED <<df_title, df_columns, df_rows, df_idx, df_questions, df_kept,
                   df_args, tokVars, ntVars, qVars, jsVars, appVars>>

-----------------------------------------------------------------------------
(* app.py: FormBuilder.detect_input_type *)

SLASH == "/"
DOT   == "."

DOCS_HOST    == Chars("docs.google.com")
SPREADSHEETS == Chars("spreadsheets")
EXT_JSON     == Chars(".json")
EXT_CSV      == Chars(".csv")

\* line 51: the length a bare sheet id exceeds
SheetIdLength == 20

\* sub in s, for a non-empty sub
Contains(s, sub) ==
    \E i \in 1..(Len(s) - Len(sub) + 1) : SubSeq(s, i, i + Len(sub) - 1) = sub

\* s.startswith(c), for a character c
StartsWith(s, c) == s # <<>> /\ Head(s) = c

\* line 50: 'docs.google.com' in source and 'spreadsheets' in source
IsSheetsUrl(source) == Contains(source, DOCS_HOST) /\ Contains(source, SPREADSHEETS)

LooksLikeSheetId_AtLeast(source) ==
    Len(source) >= SheetIdLength /\ ~Contains(source, <<SLASH>>)

\* line 51: len(source) > 20 and '/' not in source
LooksLikeSheetId(source) ==
    Len(source) > SheetIdLength /\ ~Contains(source, <<SLASH>>)

\* s without its trailing slashes, as Path(s) drops them
RECURSIVE DropTrailingSlashes(_)
DropTrailingSlashes(s) ==
    IF s # <<>> /\ s[Len(s)] = SLASH
    THEN DropTrailingSlashes(SubSeq(s, 1, Len(s) - 1))
    ELSE s

\* Path(source).name: the final component
PathName(source) ==
    LET t == DropTrailingSlashes(source) IN
    SubSeq(t, RFind(t, SLASH, Len(t)) + 1, Len(t))

\* line 57: Path(source).suffix: the name from its last dot on, when that dot
\* is neither the first nor the last character of the name
PathSuffix(source) ==
    LET name == PathName(source)
        i    == RFind(name, DOT, Len(name))
    IN  IF 1 < i /\ i < Len(name) THEN SubSeq(name, i, Len(name)) ELSE <<>>

FileExtension_CaseSensitive(source) == PathSuffix(source)

\* line 57: path.suffix.lower()
FileExtension(source) == Lower(PathSuffix(source))

\* what the file system holds under a name
Absent      == [tag |-> "absent"]
Unreadable  == [tag |-> "unreadable"]
File(c)     == [tag |-> "file", content |-> c]

JSON_TYPE   == "json"
CSV_TYPE    == "csv"
SHEETS_TYPE == "sheets"

Detected(t) == [tag |-> "type", v |-> t]

\* lines 64-72: the type the content shows, "" when it shows none or the file
\* cannot be read
SniffContent(c) ==
    IF c.tag = "unreadable" THEN ""
    ELSE LET content == Strip(c.v) IN
         IF StartsWith(content, "[") \/ StartsWith(content, "{") THEN JSON_TYPE
         ELSE IF Contains(content, <<COMMA>>) THEN CSV_TYPE
         ELSE ""

\* lines 39-75
DetectInputType(source, file) ==
    IF IsSheetsUrl(source) \/ LooksLikeSheetId(source)
    THEN SHEETS_TYPE
    ELSE IF file.tag = "file"
    THEN LET ext == FileExtension(source) IN
         IF ext = EXT_JSON THEN JSON_TYPE
         ELSE IF ext = EXT_CSV THEN CSV_TYPE
         ELSE IF SniffContent(file.content) # "" THEN SniffContent(file.content)
         ELSE JSON_TYPE
    ELSE JSON_TYPE

-----------------------------------------------------------------------------
(* parsers.py: SheetsParser *)

Digits == {"0", "1", "2", "3", "4", "5", "6", "7", "8", "9"}

\* lines 274-275: the class [a-zA-Z0-9-_]
IsIdChar(c) == c \in LowerSet \cup UpperSet \cup Digits \cup {"-", "_"}

\* the length of the longest run of id characters of s that starts at i
RECURSIVE RunLength(_, _)
RunLength(s, i) ==
    IF i > Len(s) THEN 0
    ELSE IF IsIdChar(s[i]) THEN 1 + RunLength(s, i + 1) ELSE 0

\* line 269: the length a bare id exceeds
BareIdLength == 20
\* line 275: {30,}
TokenLength == 30

SHEET_PATH == Chars("/spreadsheets/d/")

IsBareId_AnyLength(source) == ~Contains(source, <<SLASH>>)

IsBareId_Longer(source) == ~Contains(source, <<SLASH>>) /\ Len(source) > TokenLength

\* line 269: '/' not in source and len(source) > 20
IsBareId(source) == ~Contains(source, <<SLASH>>) /\ Len(source) > BareIdLength

\* s holds sub at position i
HoldsAt(s, sub, i) ==
    i >= 1 /\ i + Len(sub) - 1 <= Len(s) /\ SubSeq(s, i, i + Len(sub) - 1) = sub

\* line 274: where re.search finds /spreadsheets/d/([a-zA-Z0-9-_]+): the
\* positions of the path that at least one id character follows
SheetPathMatches(s) ==
    {i \in 1..Len(s) : HoldsAt(s, SHEET_PATH, i) /\ RunLength(s, i + Len(SHEET_PATH)) >= 1}

\* the group of the leftmost match, greedy
SheetPathGroup(s) ==
    LET i == CHOOSE x \in SheetPathMatches(s) : \A y \in SheetPathMatches(s) : x <= y
        g == i + Len(SHEET_PATH)
    IN  SubSeq(s, g, g + RunLength(s, g) - 1)

\* line 275: docs\.google\.com.*[/=]([a-zA-Z0-9-_]{30,}): the pairs of a
\* position h of the host and a position q of a separator after it, with no
\* line break between them and at least 30 id characters after q
TokenMatches(s) ==
    {hq \in (1..Len(s)) \X (1..Len(s)) :
        /\ HoldsAt(s, DOCS_HOST, hq[1])
        /\ hq[2] >= hq[1] + Len(DOCS_HOST)
        /\ s[hq[2]] \in {SLASH, "="}
        /\ \A k \in (hq[1] + Len(DOCS_HOST))..(hq[2] - 1) : s[k] # "\n"
        /\ RunLength(s, hq[2] + 1) >= TokenLength}

\* the group of the match re.search returns: the leftmost host, then (.* is
\* greedy) the last separator
TokenGroup(s) ==
    LET M  == TokenMatches(s)
        h  == CHOOSE x \in {m[1] : m \in M} : \A m \in M : x <= m[1]
        Q  == {m[2] : m \in {n \in M : n[1] = h}}
        q  == CHOOSE x \in Q : \A y \in Q : x >= y
    IN  SubSeq(s, q + 1, q + RunLength(s, q + 1))

\* lines 266-283
ExtractSheetId(source) ==
    IF IsBareId(source) THEN Str(source)
    ELSE IF SheetPathMatches(source) # {} THEN Str(SheetPathGroup(source))
    ELSE IF TokenMatches(source) # {} THEN Str(TokenGroup(source))
    ELSE RaiseAt("ValueError", "Could not extract sheet ID from: {}", 0, None)

\* a call made to the collaborator
Call(op, arg) == [op |-> op, arg |-> arg]

\* what the collaborator does when asked for the sheet
AuthFails    == [tag |-> "auth_fails"]     \* gspread.service_account raises
RefreshFails == [tag |-> "refresh_error"]  \* open_by_key raises RefreshError
OpenFails    == [tag |-> "api_error"]      \* open_by_key raises another error
Sheet(title, values) == [tag |-> "sheet", title |-> title, values |-> values]

SheetTitles == {Chars("Survey"), <<>>}

SheetHeaders == {<<Chars("Question"), Chars("Type")>>, <<Chars("Question")>>}

SheetCells(name) ==
    IF Lower(name) = COL_QUESTION
    THEN {Str(Chars("Name?"))}
    ELSE {Str(Chars("text")), Str(Chars("radio"))}

SheetRowsOf(header) ==
    {row \in [1..Len(header) -> UNION {SheetCells(header[c]) : c \in 1..Len(header)}] :
        \A c \in 1..Len(header) : row[c] \in SheetCells(header[c])}

\* worksheet.get_all_values(): no rows, or a header row and at most one more
SheetValues ==
    {<<>>}
    \cup UNION {{[header |-> h, rows |-> r] : r \in StringsUpTo(SheetRowsOf(h), 1)} :
                   h \in SheetHeaders}

Responses ==
    {AuthFails, RefreshFails, OpenFails}
    \cup {Sheet(t, v) : t \in SheetTitles, v \in SheetValues}

\* line 245: sheet_id = self._extract_sheet_id(source), outside the try
SidExtract ==
    /\ sid_pc = "start"
    /\ LET sheet_id == ExtractSheetId(sid_source) IN
       IF sheet_id.tag = "raise"
       THEN /\ sid_result' = sheet_id
            /\ sid_pc' = "done"
            /\ UNCHANGED sid_key
       ELSE /\ sid_key' = sheet_id
            /\ sid_pc' = "fetch"
            /\ UNCHANGED sid_result
    /\ UNCHANGED <<sid_source, sid_calls, parseVars, detVars, reqVars, apiVars, authVars, topVars>>

\* lines 247-259 and 261-264: the client is made, the sheet opened and its
\* values read; _parse_dataframe is entered with the table
SidFetch ==
    /\ sid_pc = "fetch"
    /\ \E response \in Responses :
        CASE response.tag = "auth_fails" ->
                /\ sid_calls' = <<Call("service_account", None)>>
                /\ sid_result' = RaiseAt("ValueError", "Error accessing Google Sheet: {}", 0,
                                   RaiseAt("ValueError",
                                           "Failed to authenticate with Google Sheets: {}",
                                           0, None))
                /\ sid_pc' = "done"
                /\ UNCHANGED dfVars
          [] response.tag = "refresh_error" ->
                /\ sid_calls' = <<Call("service_account", None),
                                  Call("open_by_key", sid_key)>>
                /\ sid_result' = RaiseAt("ValueError",
                                   "Authentication failed. Please check your credentials.",
                                   0, None)
                /\ sid_pc' = "done"
                /\ UNCHANGED dfVars
          [] response.tag = "api_error" ->
                /\ sid_calls' = <<Call("service_account", None),
                                  Call("open_by_key", sid_key)>>
                /\ sid_result' = RaiseAt("ValueError", "Error accessing Google Sheet: {}", 0,
                                         None)
                /\ sid_pc' = "done"
                /\ UNCHANGED dfVars
          [] response.tag = "sheet" ->
                /\ sid_calls' = <<Call("service_account", None),
                                  Call("open_by_key", sid_key),
                                  Call("get_worksheet", None),
                                  Call("get_all_values", None)>>
                /\ IF response.values = <<>>
                   THEN /\ sid_result' =
                              RaiseAt("ValueError", "Error accessing Google Sheet: {}", 0,
                                      RaiseAt("ValueError", "Sheet is empty", 0, None))
                        /\ sid_pc' = "done"
                        /\ UNCHANGED dfVars
                   ELSE /\ df_title' = response.title
                        /\ df_columns' = response.values.header
                        /\ df_rows' = response.values.rows
                        /\ df_pc' = "start"
                        /\ sid_pc' = "parse"
                        /\ UNCHANGED <<sid_result, df_idx, df_questions, df_kept,
                                       df_args, df_result>>
    /\ UNCHANGED <<sid_source, sid_key, tokVars, ntVars, qVars, jsVars, detVars,
                   reqVars, apiVars, authVars, topVars>>

\* lines 259 and 263-264: _parse_dataframe has returned or raised
SidReturn ==
    /\ sid_pc = "parse"
    /\ df_pc = "done"
    /\ sid_result' =
           IF df_result.tag = "raise"
           THEN RaiseAt("ValueError", "Error accessing Google Sheet: {}", 0, df_result)
           ELSE df_result
    /\ sid_pc' = "done"
    /\ UNCHANGED <<sid_source, sid_key, sid_calls, parseVars, detVars, reqVars,
                   apiVars, authVars, topVars>>

-----------------------------------------------------------------------------
(* forms_api.py: GoogleFormsAPI._create_question_request *)

\* models.py lines 12-16: the names of the members of QuestionType
MemberNames == {"SHORT_ANSWER", "PARAGRAPH", "MULTIPLE_CHOICE", "CHECKBOXES", "DROPDOWN"}

\* QuestionType.<name>: the member, or the AttributeError the enum class
\* raises for a name it does not define
Member(name) ==
    CASE name = "SHORT_ANSWER"    -> Enum(SHORT_ANSWER)
      [] name = "PARAGRAPH"       -> Enum(PARAGRAPH)
      [] name = "MULTIPLE_CHOICE" -> Enum(MULTIPLE_CHOICE)
      [] name = "CHECKBOXES"      -> Enum(CHECKBOXES)
      [] name = "DROPDOWN"        -> Enum(DROPDOWN)
      [] OTHER                    -> Propagate("AttributeError", Msg(name, <<>>))

\* question.type == QuestionType.<name>, for a name the enum defines: a member
\* of the str enum equals the str of its value
TypeIs(question, name) == question.type.v = Member(name).v

\* question.description or ""
DescriptionOrEmpty(d) == IF d = None THEN <<>> ELSE d

\* lines 322-326: one {"value": option} per option of question.options or []
RECURSIVE ChoiceOptions(_)
ChoiceOptions(options) ==
    IF options = <<>> THEN <<>>
    ELSE <<[value |-> Head(options)]>> \o ChoiceOptions(Tail(options))

OptionsOrEmpty(o) == IF o = None THEN <<>> ELSE o.v

TextQuestion(paragraph) == [tag |-> "textQuestion", paragraph |-> paragraph]

ChoiceQuestion(type, options) ==
    [tag |-> "choiceQuestion", type |-> type, options |-> options]

NoQuestion == [tag |-> "none"]

\* lines 309-361: questionItem["question"] for the type of the question
QuestionBody(question) ==
    IF TypeIs(question, "SHORT_ANSWER") THEN TextQuestion(FALSE)
    ELSE IF TypeIs(question, "PARAGRAPH") THEN TextQuestion(TRUE)
    ELSE IF TypeIs(question, "MULTIPLE_CHOICE")
    THEN ChoiceQuestion("RADIO", ChoiceOptions(OptionsOrEmpty(question.options)))
    ELSE IF TypeIs(question, "CHECKBOXES")
    THEN ChoiceQuestion("CHECKBOX", ChoiceOptions(OptionsOrEmpty(question.options)))
    ELSE IF TypeIs(question, "DROPDOWN")
    THEN ChoiceQuestion("DROP_DOWN", ChoiceOptions(OptionsOrEmpty(question.options)))
    ELSE NoQuestion

CreateItem(item, index) ==
    [tag |-> "createItem", item |-> item, location |-> [index |-> index]]

\* lines 272-368.  The comparisons of lines 277 and 289 first evaluate
\* QuestionType.SECTION and QuestionType.TITLE.
CreateQuestionRequest(question, index) ==
    IF Member("SECTION").tag = "propagate" THEN Member("SECTION")
    ELSE IF TypeIs(question, "SECTION")
    THEN CreateItem([title       |-> question.question,
                     description |-> DescriptionOrEmpty(question.description),
                     body        |-> [tag |-> "pageBreakItem"]], index)
    ELSE IF Member("TITLE").tag = "propagate" THEN Member("TITLE")
    ELSE IF TypeIs(question, "TITLE")
    THEN CreateItem([title       |-> question.question,
                     description |-> DescriptionOrEmpty(question.description),
                     body        |-> [tag |-> "textItem"]], index)
    ELSE CreateItem([title       |-> question.question,
                     description |-> DescriptionOrEmpty(question.description),
                     body        |-> [tag      |-> "questionItem",
                                      question |-> QuestionBody(question)]], index)

-----------------------------------------------------------------------------
(* forms_api.py: GoogleFormsAPI.create_form and _add_questions *)

\* s.split(sep), for a character sep
RECURSIVE Split(_, _)
Split(s, sep) ==
    LET i == Find(s, sep, 1) IN
    IF i = 0 THEN <<s>>
    ELSE <<SubSeq(s, 1, i - 1)>> \o Split(SubSeq(s, i + 1, Len(s)), sep)

\* a str argument that is given and not empty
Truthy(x) == x # None /\ x.v # <<>>

\* lines 131-138
FormTitle(form_data, new_folder) ==
    IF form_data.title = <<>> \/ form_data.title = UntitledForm
    THEN IF Truthy(new_folder)
         THEN LET parts == Split(new_folder.v, SLASH) IN parts[Len(parts)]
         ELSE IF form_data.title # <<>> THEN form_data.title
         ELSE UntitledForm
    ELSE form_data.title

\* lines 144-149: the body of the create request
ShellBody(form_data, new_folder) ==
    [title       |-> FormTitle(form_data, new_folder),
     description |-> DescriptionOrEmpty(form_data.description)]

FORM_ID == "form-1"
ROOT    == "root"

\* the id of the Drive folder of a name under a parent
FolderId(kind, parent, name) == [kind |-> kind, parent |-> parent, name |-> name]

\* lines 254-258: the requests for the questions from position i on, or the
\* first exception raised while building them
Requests(v) == [tag |-> "requests", v |-> v]

RECURSIVE BuildRequests(_, _)
BuildRequests(questions, i) ==
    IF i > Len(questions) THEN Requests(<<>>)
    ELSE LET request == CreateQuestionRequest(questions[i], i - 1) IN
         IF request.tag = "propagate" THEN request
         ELSE LET rest == BuildRequests(questions, i + 1) IN
              IF rest.tag = "propagate" THEN rest
              ELSE Requests(<<request>> \o rest.v)

Failed_Swallowed(fmt, cause) ==
    [tag |-> "created", form_id |-> FORM_ID, title |-> <<>>, question_count |-> 0]

\* lines 247-250: what the except clauses raise
Failed(fmt, cause) == RaiseAt("ValueError", fmt, 0, cause)

\* lines 129-153: the title is chosen, the Drive service built and the form
\* created
ApiCreateShell ==
    /\ api_pc = "start"
    /\ \E outcome \in {"build_fails", "http_error", "other_error", "ok"} :
        LET create == Call("forms.create", ShellBody(api_form, api_new_folder)) IN
        CASE outcome = "build_fails" ->
                /\ api_result' = Failed("Failed to create form: {}", None)
                /\ api_pc' = "done"
                /\ UNCHANGED <<api_calls, api_remote>>
          [] outcome = "http_error" ->
                /\ api_calls' = Append(api_calls, create)
                /\ api_result' = Failed("Google Forms API error: {}", None)
                /\ api_pc' = "done"
                /\ UNCHANGED api_remote
          [] outcome = "other_error" ->
                /\ api_calls' = Append(api_calls, create)
                /\ api_result' = Failed("Failed to create form: {}", None)
                /\ api_pc' = "done"
                /\ UNCHANGED api_remote
          [] outcome = "ok" ->
                /\ api_calls' = Append(api_calls, create)
                /\ api_remote' = [id          |-> FORM_ID,
                                  title       |-> create.arg.title,
                                  description |-> create.arg.description,
                                  items       |-> <<>>]
                /\ api_pc' = "rename"
                /\ UNCHANGED api_result
    /\ UNCHANGED <<api_form, api_folder_id, api_new_folder, api_parts, api_parent,
                   api_target, parseVars, detVars, sidVars, reqVars, authVars, topVars>>

\* lines 155-170: the file is renamed in Drive (a failure is only printed),
\* target_folder_id starts as folder_id and the folder path is split
ApiRename ==
    /\ api_pc = "rename"
    /\ \E outcome \in {"fails", "ok"} :
        api_calls' = Append(api_calls,
                            Call("drive.files.update",
                                 [fileId  |-> FORM_ID,
                                  name    |-> FormTitle(api_form, api_new_folder),
                                  outcome |-> outcome]))
    /\ api_target' = api_folder_id
    /\ IF Truthy(api_new_folder)
       THEN /\ api_parts' = Split(api_new_folder.v, SLASH)
            /\ api_parent' = ROOT
            /\ api_pc' = "folders"
       ELSE /\ api_pc' = "move"
            /\ UNCHANGED <<api_parts, api_parent>>
    /\ UNCHANGED <<api_form, api_folder_id, api_new_folder, api_remote, api_result,
                   parseVars, detVars, sidVars, reqVars, authVars, topVars>>

\* lines 173-196 and 200-202: one folder of the path is looked up and, when
\* absent, created; a failure ends the loop with target_folder_id = None
ApiFolderPart ==
    /\ api_pc = "folders"
    /\ api_parts # <<>>
    /\ LET folder_name == Head(api_parts)
           list   == Call("drive.files.list", [name |-> folder_name, parent |-> api_parent])
           create == Call("drive.files.create", [name |-> folder_name, parent |-> api_parent])
       IN  \E outcome \in {"list_fails", "found", "create_fails", "created"} :
            CASE outcome = "list_fails" ->
                    /\ api_calls' = Append(api_calls, list)
                    /\ api_target' = None
                    /\ api_pc' = "move"
                    /\ UNCHANGED <<api_parts, api_parent>>
              [] outcome = "found" ->
                    /\ api_calls' = Append(api_calls, list)
                    /\ api_parent' = FolderId("existing", api_parent, folder_name)
                    /\ api_parts' = Tail(api_parts)
                    /\ UNCHANGED <<api_target, api_pc>>
              [] outcome = "create_fails" ->
                    /\ api_calls' = api_calls \o <<list, create>>
                    /\ api_target' = None
                    /\ api_pc' = "move"
                    /\ UNCHANGED <<api_parts, api_parent>>
              [] outcome = "created" ->
                    /\ api_calls' = api_calls \o <<list, create>>
                    /\ api_parent' = FolderId("created", api_parent, folder_name)
                    /\ api_parts' = Tail(api_parts)
                    /\ UNCHANGED <<api_target, api_pc>>
    /\ UNCHANGED <<api_form, api_folder_id, api_new_folder, api_remote, api_result,
                   parseVars, detVars, sidVars, reqVars, authVars, topVars>>

\* lines 198-199: the loop over the path has ended
ApiFoldersDone ==
    /\ api_pc = "folders"
    /\ api_parts = <<>>
    /\ api_target' = api_parent
    /\ api_pc' = "move"
    /\ UNCHANGED <<api_form, api_folder_id, api_new_folder, api_parts, api_parent,
                   api_calls, api_remote, api_result,
                   parseVars, detVars, sidVars, reqVars, authVars, topVars>>

\* lines 204-226: the form is moved to the target folder, if there is one (a
\* failure is only printed)
ApiMove ==
    /\ api_pc = "move"
    /\ IF api_target # None
       THEN LET get    == Call("drive.files.get", [fileId |-> FORM_ID])
                update == Call("drive.files.move", [fileId |-> FORM_ID, to |-> api_target])
            IN  \E outcome \in {"get_fails", "move_fails", "ok"} :
                    api_calls' = IF outcome = "get_fails"
                                 THEN Append(api_calls, get)
                                 ELSE api_calls \o <<get, update>>
       ELSE UNCHANGED api_calls
    /\ api_pc' = "insert"
    /\ UNCHANGED <<api_form, api_folder_id, api_new_folder, api_parts, api_parent,
                   api_target, api_remote, api_result,
                   parseVars, detVars, sidVars, reqVars, authVars, topVars>>

\* lines 228-250 and 252-270: the requests are built and sent in one batch,
\* and the result is returned
ApiAddQuestions ==
    /\ api_pc = "insert"
    /\ LET requests == BuildRequests(api_form.questions, 1)
           result   == [tag            |-> "created",
                        form_id        |-> FORM_ID,
                        title          |-> api_form.title,
                        question_count |-> Len(api_form.questions)]
       IN  IF requests.tag = "propagate"
           THEN /\ api_result' = Failed("Failed to create form: {}", requests)
                /\ UNCHANGED <<api_calls, api_remote>>
           ELSE IF requests.v = <<>>
           THEN /\ api_result' = result
                /\ UNCHANGED <<api_calls, api_remote>>
           ELSE \E outcome \in {"http_error", "ok"} :
                /\ api_calls' = Append(api_calls, Call("forms.batchUpdate", requests.v))
                /\ IF outcome = "ok"
                   THEN /\ api_remote' = [api_remote EXCEPT !.items = requests.v]
                        /\ api_result' = result
                   ELSE /\ api_result' = Failed("Google Forms API error: {}", None)
                        /\ UNCHANGED api_remote
    /\ api_pc' = "done"
    /\ UNCHANGED <<api_form, api_folder_id, api_new_folder, api_parts, api_parent,
                   api_target, parseVars, detVars, sidVars, reqVars, authVars, topVars>>

-----------------------------------------------------------------------------
(* forms_api.py: GoogleFormsAPI.__init__, _authenticate and _oauth2_flow *)

\* google.oauth2.credentials.Credentials: whether a token is held, whether it
\* has expired and whether a refresh token is held
Creds(token, expired, refresh_token) ==
    [tag |-> "creds", token |-> token, expired |-> expired,
     refresh_token |-> refresh_token]

\* creds.valid
Valid(creds) == creds.token /\ ~creds.expired

\* what creds.refresh(Request()) leaves when it does not raise
Refreshed(creds) == Creds(TRUE, FALSE, creds.refresh_token)

\* what flow.run_local_server returns when it does not raise
LoggedIn == Creds(TRUE, FALSE, TRUE)

\* what the service-account file gives when it loads
ServiceAccount == [tag |-> "service_account"]

\* lines 73-77: the saved token, None when there is no file or it does not load
LoadToken(env) ==
    IF env.token_file.tag = "creds" THEN env.token_file.creds ELSE None

\* lines 81-85
RefreshToken(env, creds) ==
    IF creds # None /\ creds.expired /\ creds.refresh_token
    THEN IF env.refresh_ok THEN Refreshed(creds) ELSE None
    ELSE creds

\* what _oauth2_flow returns, and what it writes to the token file
Flow(creds, saved) == [creds |-> creds, saved |-> saved]

\* lines 68-112
OAuth2Flow(env) ==
    LET loaded == LoadToken(env) IN
    IF loaded # None /\ Valid(loaded) THEN Flow(loaded, None)
    ELSE LET creds == RefreshToken(env, loaded) IN
         IF creds = None
         THEN IF ~env.credentials_given THEN Flow(None, None)
              ELSE IF ~env.login_ok THEN Flow(None, None)
              ELSE Flow(LoggedIn, IF env.save_ok THEN LoggedIn ELSE None)
         ELSE Flow(creds, IF env.save_ok THEN creds ELSE None)

\* what GoogleFormsAPI(...) leaves: the client or the error, the credentials it
\* rests on and what was written to the token file
Client(result, creds, saved, flow_ran) ==
    [result |-> result, creds |-> creds, saved |-> saved, flow_ran |-> flow_ran]

\* lines 28-66
Authenticate(env) ==
    LET account == IF env.credentials_given /\ env.credentials_exist /\ env.account_ok
                   THEN ServiceAccount ELSE None
        flow    == IF account = None THEN OAuth2Flow(env) ELSE Flow(account, None)
    IN  IF flow.creds = None
        THEN Client(RaiseAt("ValueError",
                            "Authentication failed. Please provide valid credentials.",
                            0, None),
                    None, flow.saved, account = None)
        ELSE IF ~env.build_ok
        THEN Client(RaiseAt("ValueError", "Failed to initialize Forms API: {}", 0, None),
                    flow.creds, flow.saved, account = None)
        ELSE Client([tag |-> "service"], flow.creds, flow.saved, account = None)

-----------------------------------------------------------------------------
(* parsers.py: CSVParser.parse *)

ReadError == [tag |-> "read_error"]          \* pd.read_csv raises
Table(header, rows) == [tag |-> "table", header |-> header, rows |-> rows]

NameItem   == [tag |-> "dict",
               kw  |-> Kw(Str(Chars("Name?")), Missing, Str(SHORT_ANSWER), Missing)]
ColourItem == [tag |-> "dict", kw |-> Kw(Str(Chars("Colour?")), Missing, Missing, Missing)]
BlankItem  == [tag |-> "dict", kw |-> Kw(Str(<<SP>>), Missing, Missing, Missing)]

\* what json.load gives for the file
AppDocuments ==
    {[tag |-> "badjson"], List(<<>>), List(<<NameItem>>), List(<<ColourItem, NameItem>>),
     List(<<NameItem, BlankItem>>)}

\* what pd.read_csv gives for the file
AppTables ==
    {ReadError,
     Table(<<Chars("Question")>>, <<>>),
     Table(<<Chars("Question"), Chars("Type")>>, <<>>),
     Table(<<Chars("Question"), Chars("Type")>>, <<<<Str(Chars("Name?")), Str(Chars("text"))>>>>),
     Table(<<Chars("Question"), Chars("Type")>>, <<<<Str(Chars("Name?")), NaN>>>>)}

ServiceAccountEnv ==
    [token_file |-> [tag |-> "absent"], refresh_ok |-> FALSE, credentials_given |-> TRUE,
     credentials_exist |-> TRUE, account_ok |-> TRUE, login_ok |-> FALSE,
     save_ok |-> FALSE, build_ok |-> TRUE]

\* the environments the client is made in: a service account, no credentials
\* at all, and a service account whose client cannot be built
AppEnvs ==
    {ServiceAccountEnv,
     [ServiceAccountEnv EXCEPT !.credentials_given = FALSE, !.credentials_exist = FALSE,
                               !.account_ok = FALSE],
     [ServiceAccountEnv EXCEPT !.build_ok = FALSE]}

\* lines 151-160: the file is looked for and read, and _parse_dataframe is
\* entered with the table
CsvOpen ==
    /\ df_pc = "open"
    /\ IF app_file = Absent
       THEN /\ df_result' = RaiseAt("FileNotFoundError", "CSV file not found: {}", 0, None)
            /\ df_pc' = "done"
            /\ UNCHANGED <<df_title, df_columns, df_rows>>
       ELSE \E table \in AppTables :
            IF table.tag = "read_error"
            THEN /\ df_result' = RaiseAt("ValueError", "Error reading CSV file: {}", 0, None)
                 /\ df_pc' = "done"
                 /\ UNCHANGED <<df_title, df_columns, df_rows>>
            ELSE /\ df_title' = DfTitle
                 /\ df_columns' = table.header
                 /\ df_rows' = table.rows
                 /\ df_pc' = "start"
                 /\ UNCHANGED df_result
    /\ UNCHANGED <<df_idx, df_questions, df_kept, df_args, tokVars, ntVars, qVars,
                   jsVars, appVars>>

-----------------------------------------------------------------------------
(* app.py: FormBuilder.parse_input, validate_input and create_form *)

PARSE_INPUT    == "parse_input"
VALIDATE_INPUT == "validate_input"
CREATE_FORM    == "create_form"

\* lines 88-89
InputType(source, file, input_type) ==
    IF input_type = None THEN DetectInputType(source, file) ELSE input_type.v

ParseFailed_Swallowed(input_type, e) ==
    [tag |-> "FormData", title |-> UntitledForm, description |-> <<>>, questions |-> <<>>]

\* lines 109-110: raise ValueError(f"Failed to parse {input_type} input: {e}")
ParseFailed(input_type, e) ==
    RaiseAt("ValueError", "Failed to parse {} input: {}", 0, [type |-> input_type, e |-> e])

\* lines 88-107: the input type is settled and the parser of that type called
AppStart ==
    /\ app_pc = "start"
    /\ LET input_type == InputType(app_source, app_file, app_hint) IN
       /\ app_type' = input_type
       /\ CASE input_type = JSON_TYPE ->
                 /\ js_pc' = "start"
                 /\ js_data' \in IF app_file = Absent THEN {[tag |-> "nofile"]}
                                 ELSE AppDocuments
                 /\ app_pc' = "parsing"
                 /\ UNCHANGED <<js_i, js_questions, js_result, dfVars, sidVars,
                                app_parsed>>
            [] input_type = CSV_TYPE ->
                 /\ df_pc' = "open"
                 /\ app_pc' = "parsing"
                 /\ UNCHANGED <<df_title, df_columns, df_rows, df_idx, df_questions,
                                df_kept, df_args, df_result, jsVars, sidVars,
                                app_parsed>>
            [] input_type = SHEETS_TYPE ->
                 /\ sid_source' = app_source
                 /\ sid_pc' = "start"
                 /\ app_pc' = "parsing"
                 /\ UNCHANGED <<sid_key, sid_calls, sid_result, jsVars, dfVars,
                                app_parsed>>
            [] OTHER ->
                 /\ app_parsed' =
                        ParseFailed(input_type,
                                    RaiseAt("ValueError", "Unsupported input type: {}", 0,
                                            None))
                 /\ app_pc' = "parsed"
                 /\ UNCHANGED <<jsVars, dfVars, sidVars>>
    /\ UNCHANGED <<app_op, app_source, app_file, app_hint, app_title, app_description,
                   app_result, tokVars, ntVars, qVars, detVars, reqVars, apiVars,
                   authVars>>

\* what the parser called by parse_input has returned or raised
ParserResult ==
    CASE app_type = JSON_TYPE   -> IF js_pc = "done" THEN js_result ELSE NotRun
      [] app_type = CSV_TYPE    -> IF df_pc = "done" THEN df_result ELSE NotRun
      [] app_type = SHEETS_TYPE -> IF sid_pc = "done" THEN sid_result ELSE NotRun
      [] OTHER                  -> NotRun

\* lines 93-110: the parser has returned or raised
AppParsed ==
    /\ app_pc = "parsing"
    /\ ParserResult # NotRun
    /\ app_parsed' = IF ParserResult.tag = "raise"
                     THEN ParseFailed(app_type, ParserResult)
                     ELSE ParserResult
    /\ app_pc' = "parsed"
    /\ UNCHANGED <<app_op, app_source, app_file, app_hint, app_title, app_description,
                   app_type, app_result, parseVars, detVars, sidVars, reqVars, apiVars,
                   authVars>>

\* parse_input called by itself: its result is the result
AppReturn ==
    /\ app_op = PARSE_INPUT
    /\ app_pc = "parsed"
    /\ app_result' = app_parsed
    /\ app_pc' = "done"
    /\ UNCHANGED <<app_op, app_source, app_file, app_hint, app_title, app_description,
                   app_type, app_parsed, parseVars, detVars, sidVars, reqVars, apiVars,
                   authVars>>

\* lines 158-161: question_types after the questions from position i on
RECURSIVE CountTypes(_, _, _)
CountTypes(questions, i, question_types) ==
    IF i > Len(questions) THEN question_types
    ELSE LET qtype == questions[i].type.v
             count == IF qtype \in DOMAIN question_types THEN question_types[qtype] ELSE 0
         IN  CountTypes(questions, i + 1,
                        [t \in DOMAIN question_types \cup {qtype} |->
                            IF t = qtype THEN count + 1 ELSE question_types[t]])

\* lines 168-169
NeedsOptions(question) ==
    /\ question.type.v \in {MULTIPLE_CHOICE, CHECKBOXES, DROPDOWN}
    /\ (question.options = None \/ Len(question.options.v) = 0)

\* lines 164-170
RECURSIVE Warnings(_)
Warnings(questions) ==
    IF questions = <<>> THEN <<>>
    ELSE (IF NeedsOptions(Head(questions))
          THEN <<Msg("Question '{}' needs options", Head(questions).question)>>
          ELSE <<>>)
         \o Warnings(Tail(questions))

NoCounts == [t \in {} |-> 0]

Invalid_WithCount(e) ==
    [valid |-> FALSE, error |-> e, question_count |-> 1, question_types |-> NoCounts,
     warnings |-> <<>>, questions |-> <<>>]

\* lines 190-198
Invalid(e) ==
    [valid |-> FALSE, error |-> e, question_count |-> 0, question_types |-> NoCounts,
     warnings |-> <<>>, questions |-> <<>>]

\* lines 154-198
ValidationResult(parsed) ==
    IF parsed.tag = "raise" THEN Invalid(parsed)
    ELSE [valid          |-> TRUE,
          title          |-> parsed.title,
          description    |-> parsed.description,
          question_count |-> Len(parsed.questions),
          question_types |-> CountTypes(parsed.questions, 1, NoCounts),
          warnings       |-> Warnings(parsed.questions),
          questions      |-> [k \in 1..Len(parsed.questions) |->
                                 [question    |-> parsed.questions[k].question,
                                  type        |-> parsed.questions[k].type.v,
                                  description |-> parsed.questions[k].description,
                                  options     |-> parsed.questions[k].options]]]

\* lines 154-198: validate_input after parse_input has returned or raised
AppValidate ==
    /\ app_op = VALIDATE_INPUT
    /\ app_pc = "parsed"
    /\ app_result' = ValidationResult(app_parsed)
    /\ app_pc' = "done"
    /\ UNCHANGED <<app_op, app_source, app_file, app_hint, app_title, app_description,
                   app_type, app_parsed, parseVars, detVars, sidVars, reqVars, apiVars,
                   authVars>>

Overridden_Never(form_data, title, description) == form_data

\* lines 130-133
Overridden(form_data, title, description) ==
    [form_data EXCEPT
        !.title       = IF Truthy(title) THEN title.v ELSE @,
        !.description = IF Truthy(description) THEN description.v ELSE @]

\* lines 127-139: create_form after parse_input has returned or raised; the
\* title and the description are overridden, the client is made and its
\* create_form entered
AppCreate ==
    /\ app_op = CREATE_FORM
    /\ app_pc = "parsed"
    /\ IF app_parsed.tag = "raise"
       THEN /\ app_result' = app_parsed
            /\ app_pc' = "done"
            /\ UNCHANGED <<apiVars, authVars>>
       ELSE \E env \in AppEnvs :
            /\ auth_env' = env
            /\ auth_out' = Authenticate(env)
            /\ IF auth_out'.result.tag = "raise"
               THEN /\ app_result' = auth_out'.result
                    /\ app_pc' = "done"
                    /\ UNCHANGED apiVars
               ELSE /\ api_form' = Overridden(app_parsed, app_title, app_description)
                    /\ api_pc' = "start"
                    /\ app_pc' = "creating"
                    /\ UNCHANGED <<app_result, api_folder_id, api_new_folder, api_parts,
                                   api_parent, api_target, api_calls, api_remote,
                                   api_result>>
    /\ UNCHANGED <<app_op, app_source, app_file, app_hint, app_title, app_description,
                   app_type, app_parsed, parseVars, detVars, sidVars, reqVars>>

\* lines 139-141: the client's create_form has returned or raised
AppCreated ==
    /\ app_pc = "creating"
    /\ api_pc = "done"
    /\ app_result' = api_result
    /\ app_pc' = "done"
    /\ UNCHANGED <<app_op, app_source, app_file, app_hint, app_title, app_description,
                   app_type, app_parsed, parseVars, detVars, sidVars, reqVars, apiVars,
                   authVars>>

-----------------------------------------------------------------------------
(* The tokenizer applied to one input *)

TokAlphabet == {"a", SP, COMMA, DQ, SQ, COLON}

ExampleCities == Chars("checkboxes: \"New York, NY\", \"Los Angeles, CA\"")
ExampleTimes  == Chars("multiple choice: 9:00, 10:00")
ExampleFruit  == Chars("multiple choice: Apple, Banana, Cherry")
ExampleBob    == Chars("dropdown: Bob's pick, Other")
ExamplePipe   == Chars("dropdown: 5\" pipe, 6\" pipe")

TokInputs ==
    StringsUpTo(TokAlphabet, MaxStrLen)
    \cup {Chars("t:") \o b : b \in StringsUpTo(TokAlphabet, MaxStrLen)}
    \cup {ExampleCities, ExampleTimes, ExampleFruit, ExampleBob, ExamplePipe,
          SHORT_ANSWER}

IdleTok == tok_in = <<>> /\ tok_out = NotRun
IdleNt  == nt_base = <<>> /\ nt_in = <<>> /\ nt_out = NotRun
IdleQ   == q_in = None /\ q_out = NotRun
IdleJs  == js_data = None /\ js_pc = "idle" /\ js_i = 0 /\ js_questions = <<>>
           /\ js_result = NotRun
IdleDf  == df_title = <<>> /\ df_columns = <<>> /\ df_rows = <<>> /\ df_pc = "idle" /\ df_idx = 0
           /\ df_questions = <<>> /\ df_kept = <<>> /\ df_args = <<>>
           /\ df_result = NotRun

IdleDet == det_source = <<>> /\ det_file = Absent /\ det_out = NotRun
IdleSid == sid_source = <<>> /\ sid_pc = "idle" /\ sid_key = None /\ sid_calls = <<>>
           /\ sid_result = NotRun
IdleReq == req_question = None /\ req_index = 0 /\ req_out = NotRun
IdleApi == api_form = None /\ api_folder_id = None /\ api_new_folder = None
           /\ api_pc = "idle" /\ api_parts = <<>> /\ api_parent = None
           /\ api_target = None /\ api_calls = <<>> /\ api_remote = None
           /\ api_result = NotRun
IdleAuth == auth_env = None /\ auth_out = NotRun
IdleTop == app_op = "none" /\ app_source = <<>> /\ app_file = None /\ app_hint = None
           /\ app_title = None /\ app_description = None /\ app_pc = "idle"
           /\ app_type = "" /\ app_parsed = NotRun /\ app_result = NotRun
IdleApp == IdleDet /\ IdleSid /\ IdleReq /\ IdleApi /\ IdleAuth /\ IdleTop
IdleParse == IdleTok /\ IdleNt /\ IdleQ /\ IdleJs /\ IdleDf

InitTok ==
    /\ tok_in \in TokInputs
    /\ tok_out = NotRun
    /\ IdleNt /\ IdleQ /\ IdleJs /\ IdleDf /\ IdleApp

Tokenize ==
    /\ tok_out = NotRun
    /\ tok_out' = ParseTypeAndOptions(tok_in)
    /\ UNCHANGED <<tok_in, ntVars, qVars, jsVars, dfVars, appVars>>

NextTok == Tokenize

SpecTok == InitTok /\ [][NextTok]_vars

-----------------------------------------------------------------------------
(* normalize_type applied to one input *)

NtBases ==
    TypeMappingKeys
    \cup {SHORT_ANSWER, PARAGRAPH, MULTIPLE_CHOICE, CHECKBOXES, DROPDOWN}
    \cup {Chars("long answer"), Chars("multiple_choice"), Chars("radios"),
          Chars("tex"), Chars("drop down"), Chars("n/a"), <<>>}

Capitalized(s) == IF s = <<>> THEN s ELSE <<UpperChar(s[1])>> \o Tail(s)

Paddings == {<<>>, <<SP>>, <<"\t", SP>>}

\* the spellings of a name: any case, whitespace around it
Spellings(base) ==
    {l \o c \o r : l \in Paddings, r \in Paddings,
                   c \in {base, Upper(base), Capitalized(base)}}

InitNt ==
    /\ nt_base \in NtBases
    /\ nt_in \in Spellings(nt_base)
    /\ nt_out = NotRun
    /\ IdleTok /\ IdleQ /\ IdleJs /\ IdleDf /\ IdleApp

Normalize ==
    /\ nt_out = NotRun
    /\ nt_out' = NormalizeType(Str(nt_in))
    /\ UNCHANGED <<nt_base, nt_in, tokVars, qVars, jsVars, dfVars, appVars>>

NextNt == Normalize

SpecNt == InitNt /\ [][NextNt]_vars

-----------------------------------------------------------------------------
(* Question(...) applied to one set of keyword arguments *)

QuestionTexts ==
    {Chars("Q"), Chars(" Q "), Chars("Who are you?\n"), <<>>, <<SP>>, <<"\t", SP>>}

TypeTexts ==
    {SHORT_ANSWER, Chars(" Text"), PARAGRAPH, Chars("radio"), Chars("Checkboxes"),
     DROPDOWN, Chars("bogus")}

OptionTexts == {Chars("x"), Chars(" y "), <<>>, <<SP>>}

QInputs ==
    {Kw(q, d, t, o) :
        q \in {Missing} \cup {Str(x) : x \in QuestionTexts},
        d \in {Missing, None, Str(Chars(" d "))},
        t \in {Missing} \cup {Str(x) : x \in TypeTexts},
        o \in {Missing, None}
              \cup {List(l) : l \in StringsUpTo(OptionTexts, MaxOptions)}}

InitQ ==
    /\ q_in \in QInputs
    /\ q_out = NotRun
    /\ IdleTok /\ IdleNt /\ IdleJs /\ IdleDf /\ IdleApp

Construct ==
    /\ q_out = NotRun
    /\ q_out' = NewQuestion(q_in)
    /\ UNCHANGED <<q_in, tokVars, ntVars, jsVars, dfVars, appVars>>

NextQ == Construct

SpecQ == InitQ /\ [][NextQ]_vars

-----------------------------------------------------------------------------
(* JSONParser.parse applied to one file *)

JsItems ==
    {[tag |-> "scalar"]}
    \cup {[tag |-> "dict", kw |-> Kw(q, Missing, t, o)] :
            q \in {Str(Chars("Name?")), Str(<<SP>>)},
            t \in {Missing, Str(SHORT_ANSWER), Str(Chars("radio"))},
            o \in {Missing, None, List(<<>>), List(<<Chars("Red"), Chars(" Blue ")>>)}}

JsInputs ==
    {[tag |-> "nofile"], [tag |-> "badjson"], [tag |-> "object"]}
    \cup {List(l) : l \in StringsUpTo(JsItems, MaxItems)}

InitJs ==
    /\ js_data \in JsInputs
    /\ js_pc = "start"
    /\ js_i = 0
    /\ js_questions = <<>>
    /\ js_result = NotRun
    /\ IdleTok /\ IdleNt /\ IdleQ /\ IdleDf /\ IdleApp

NextJs == JsLoad \/ JsItem \/ JsReturn

SpecJs == InitJs /\ [][NextJs]_vars

-----------------------------------------------------------------------------
(* _parse_dataframe applied to one table *)

Headers ==
    {<<Chars("Question"), Chars("Description"), Chars("Type")>>,
     <<Chars(" TYPE "), Chars("question ")>>,
     <<Chars("Question"), Chars("Description")>>,
     <<Chars("Type")>>,
     <<Chars("Name")>>}

QuestionCells ==
    {Str(Chars(" Name? ")), Str(<<SP>>), NaN, Str(Chars("NaN"))}

TypeCells ==
    {Str(Chars("multiple choice: Apple, Banana")), Str(Chars("Short Answer ")),
     Str(Chars("radio")), Str(<<>>), NaN}

DescriptionCells == {Str(Chars("Choose one")), NaN}

\* with a description column the other columns take fewer values
NarrowQuestionCells == {Str(Chars("Pick a fruit")), NaN}

NarrowTypeCells ==
    {Str(Chars("multiple choice: Apple, Banana")), Str(Chars("radio")),
     Str(Chars("bogus")), Str(Chars("Bogus: a, b"))}

\* the cells a column of the given header name can hold
CellsOf(header, c) ==
    LET name == Lower(Strip(header[c]))
        wide == Len(header) < 3
    IN  CASE name = COL_QUESTION ->
                 IF wide THEN QuestionCells
                 ELSE NarrowQuestionCells
          [] name = COL_TYPE ->
                 IF wide THEN TypeCells
                 ELSE NarrowTypeCells
          [] OTHER -> DescriptionCells

RowsOf(header) ==
    {row \in [1..Len(header) -> QuestionCells \cup NarrowQuestionCells \cup TypeCells
                                  \cup NarrowTypeCells \cup DescriptionCells] :
        \A c \in 1..Len(header) : row[c] \in CellsOf(header, c)}

InitDf ==
    /\ df_title = DfTitle
    /\ df_columns \in Headers
    /\ df_rows \in StringsUpTo(RowsOf(df_columns), MaxRows)
    /\ df_pc = "start"
    /\ df_idx = 0
    /\ df_questions = <<>>
    /\ df_kept = <<>>
    /\ df_args = <<>>
    /\ df_result = NotRun
    /\ IdleTok /\ IdleNt /\ IdleQ /\ IdleJs /\ IdleApp

NextDf == DfStart \/ DfRow \/ DfReturn

SpecDf == InitDf /\ [][NextDf]_vars

-----------------------------------------------------------------------------
(* Either parse path applied to one source *)

InitParse == InitJs \/ InitDf

NextParse == NextJs \/ NextDf

SpecParse == InitParse /\ [][NextParse]_vars

-----------------------------------------------------------------------------
(* detect_input_type applied to one source *)

\* n times the letter a
RECURSIVE Pad(_)
Pad(n) == IF n = 0 THEN <<>> ELSE <<"a">> \o Pad(n - 1)

DetDirs ==
    {<<>>, Chars("d/"), Chars("https://docs.google.com/spreadsheets/d/"),
     Chars("docs.google.com/forms/"), Chars("x.org/spreadsheets/")}

DetStems == {Pad(n) : n \in {0, 1, 15, 16, 20, 21, 25}}

DetExts ==
    {<<>>, EXT_JSON, Chars(".JSON"), EXT_CSV, Chars(".Csv"), Chars(".txt")}

DetSources == {d \o n \o x : d \in DetDirs, n \in DetStems, x \in DetExts}

DetContents ==
    {Chars("[1]"), Chars(" {\"a\": 1}"), Chars("q,t"), Chars("hello"), <<>>,
     Chars("x[,")}

DetFiles == {Absent, File(Unreadable)} \cup {File(Str(c)) : c \in DetContents}

\* the empty name is no file, and a directory cannot be read as a file
InitDet ==
    /\ det_source \in DetSources
    /\ det_file \in DetFiles
    /\ det_source = <<>> => det_file = Absent
    /\ (det_source # <<>> /\ det_source[Len(det_source)] = SLASH) =>
           det_file \in {Absent, File(Unreadable)}
    /\ det_out = NotRun
    /\ IdleParse /\ IdleSid /\ IdleReq /\ IdleApi /\ IdleAuth /\ IdleTop

Detect ==
    /\ det_out = NotRun
    /\ det_out' = Detected(DetectInputType(det_source, det_file))
    /\ UNCHANGED <<det_source, det_file, parseVars, sidVars, reqVars, apiVars, authVars, topVars>>

NextDet == Detect

SpecDet == InitDet /\ [][NextDet]_vars

-----------------------------------------------------------------------------
(* SheetsParser.parse applied to one source *)

IdToken(n) == Chars("aZ9-_") \o Pad(n - 5)

SidPrefixes == {<<>>, Chars("https://docs.google.com"), Chars("x.org")}

SidPaths ==
    {<<>>, SHEET_PATH, Chars("/forms/d/"), Chars("/open?id="),
     Chars("/spreadsheets/d//spreadsheets/d/")}

SidTokens == {<<>>} \cup {IdToken(n) : n \in {5, 20, 21, 29, 30}}

SidSuffixes == {<<>>, Chars("/edit#gid=0"), Chars(".x")}

SidSources ==
    {a \o b \o c \o d : a \in SidPrefixes, b \in SidPaths, c \in SidTokens,
                        d \in SidSuffixes}

InitSid ==
    /\ sid_source \in SidSources
    /\ sid_pc = "start"
    /\ sid_key = None
    /\ sid_calls = <<>>
    /\ sid_result = NotRun
    /\ IdleParse /\ IdleDet /\ IdleReq /\ IdleApi /\ IdleAuth /\ IdleTop

NextSid == SidExtract \/ SidFetch \/ DfStart \/ DfRow \/ DfReturn \/ SidReturn

SpecSid == InitSid /\ [][NextSid]_vars

-----------------------------------------------------------------------------
(* _create_question_request applied to one validated Question *)

ReqInputs ==
    {Kw(Str(Chars("Name?")), d, t, o) :
        d \in {Missing, Str(Chars(" About "))},
        t \in {Missing} \cup {Str(QuestionType[k]) : k \in 1..Len(QuestionType)},
        o \in {Missing, List(<<Chars("A")>>), List(<<Chars("Red"), Chars("Blue")>>)}}

\* the Questions that validation lets through
ReqQuestions == {q \in {NewQuestion(kw) : kw \in ReqInputs} : q.tag = "Question"}

InitReq ==
    /\ req_question \in ReqQuestions
    /\ req_index \in 0..MaxItems
    /\ req_out = NotRun
    /\ IdleParse /\ IdleDet /\ IdleSid /\ IdleApi /\ IdleAuth /\ IdleTop

BuildRequest ==
    /\ req_out = NotRun
    /\ req_out' = CreateQuestionRequest(req_question, req_index)
    /\ UNCHANGED <<req_question, req_index, parseVars, detVars, sidVars, apiVars, authVars, topVars>>

NextReq == BuildRequest

SpecReq == InitReq /\ [][NextReq]_vars

-----------------------------------------------------------------------------
(* create_form applied to one validated document *)

ApiQuestions ==
    {NewQuestion(Kw(Str(Chars("Name?")), Missing, Str(SHORT_ANSWER), Missing)),
     NewQuestion(Kw(Str(Chars("Colour?")), Str(Chars("Pick")), Str(CHECKBOXES),
                    List(<<Chars("Red"), Chars("Blue")>>)))}

ApiTitles == {Chars("Survey"), UntitledForm}

\* the documents FormData(...) returns
ApiForms ==
    {f \in {NewFormData(t, qs) : t \in ApiTitles, qs \in StringsUpTo(ApiQuestions, MaxItems)} :
        f.tag = "FormData"}

ApiFolderIds == {None, Str(Chars("F1"))}

ApiNewFolders == {None, Str(Chars("Team")), Str(Chars("Team/Q1"))}

InitApi ==
    /\ api_form \in ApiForms
    /\ api_folder_id \in ApiFolderIds
    /\ api_new_folder \in ApiNewFolders
    /\ api_pc = "start"
    /\ api_parts = <<>>
    /\ api_parent = None
    /\ api_target = None
    /\ api_calls = <<>>
    /\ api_remote = None
    /\ api_result = NotRun
    /\ IdleParse /\ IdleDet /\ IdleSid /\ IdleReq /\ IdleAuth /\ IdleTop

NextApi ==
    \/ ApiCreateShell
    \/ ApiRename
    \/ ApiFolderPart
    \/ ApiFoldersDone
    \/ ApiMove
    \/ ApiAddQuestions

SpecApi == InitApi /\ [][NextApi]_vars

-----------------------------------------------------------------------------
(* GoogleFormsAPI(...) applied to one environment *)

\* what the token file can hold
TokenFiles ==
    {[tag |-> "absent"], [tag |-> "unreadable"]}
    \cup {[tag |-> "creds", creds |-> Creds(t, e, r)] : t, e, r \in BOOLEAN}

AuthEnvs ==
    [token_file        : TokenFiles,
     refresh_ok        : BOOLEAN,
     credentials_given : BOOLEAN,
     credentials_exist : BOOLEAN,
     account_ok        : BOOLEAN,
     login_ok          : BOOLEAN,
     save_ok           : BOOLEAN,
     build_ok          : BOOLEAN]

InitAuth ==
    /\ auth_env \in {env \in AuthEnvs :
                        /\ env.credentials_exist => env.credentials_given
                        /\ env.account_ok => env.credentials_exist}
    /\ auth_out = NotRun
    /\ IdleParse /\ IdleDet /\ IdleSid /\ IdleReq /\ IdleApi /\ IdleTop

NewClient ==
    /\ auth_out = NotRun
    /\ auth_out' = Authenticate(auth_env)
    /\ UNCHANGED <<auth_env, parseVars, detVars, sidVars, reqVars, apiVars, topVars>>

NextAuth == NewClient

SpecAuth == InitAuth /\ [][NextAuth]_vars

-----------------------------------------------------------------------------
(* FormBuilder applied to one source *)

AppSources ==
    {Chars("q.json"), Chars("q.csv"), IdToken(21),
     Chars("https://docs.google.com") \o SHEET_PATH \o IdToken(5) \o Chars("/edit"),
     Chars("https://docs.google.com/spreadsheets/")}

AppFiles == {Absent, File(Str(Chars("[]")))}

AppHints == {None, Str(CSV_TYPE), Str("xml")}

AppTitles == {None, Str(<<>>), Str(Chars("Mine"))}

AppDescriptions == {None, Str(Chars("About"))}

InitApp ==
    /\ app_op \in {PARSE_INPUT, VALIDATE_INPUT, CREATE_FORM}
    /\ app_source \in AppSources
    /\ app_file \in AppFiles
    /\ app_hint \in AppHints
    /\ app_title \in IF app_op = CREATE_FORM THEN AppTitles ELSE {None}
    /\ app_description \in IF app_op = CREATE_FORM THEN AppDescriptions ELSE {None}
    /\ app_pc = "start"
    /\ app_type = ""
    /\ app_parsed = NotRun
    /\ app_result = NotRun
    /\ IdleParse /\ IdleDet /\ IdleSid /\ IdleReq /\ IdleApi /\ IdleAuth

NextApp ==
    \/ AppStart
    \/ CsvOpen
    \/ JsLoad \/ JsItem \/ JsReturn
    \/ DfStart \/ DfRow \/ DfReturn
    \/ SidExtract \/ SidFetch \/ SidReturn
    \/ AppParsed
    \/ AppReturn
    \/ AppValidate
    \/ AppCreate
    \/ AppCreated
    \/ ApiCreateShell \/ ApiRename \/ ApiMove
    \/ ApiAddQuestions

SpecApp == InitApp /\ [][NextApp]_vars

-----------------------------------------------------------------------------
(* parse_input applied to one source that names no local file *)

InitRoute ==
    /\ app_op = PARSE_INPUT
    /\ app_source \in SidSources
    /\ app_file = Absent
    /\ app_hint = None
    /\ app_title = None
    /\ app_description = None
    /\ app_pc = "start"
    /\ app_type = ""
    /\ app_parsed = NotRun
    /\ app_result = NotRun
    /\ IdleParse /\ IdleDet /\ IdleSid /\ IdleReq /\ IdleApi /\ IdleAuth

NextRoute ==
    \/ AppStart
    \/ JsLoad
    \/ SidExtract \/ SidFetch \/ SidReturn
    \/ DfStart \/ DfRow \/ DfReturn
    \/ AppParsed
    \/ AppReturn

SpecRoute == InitRoute /\ [][NextRoute]_vars

-----------------------------------------------------------------------------
(* What the tokenizer is said to return, stated by positions of the input  *)

SetMin(S) == CHOOSE x \in S : \A y \in S : x <= y
SetMax(S) == CHOOSE x \in S : \A y \in S : x >= y

NonSpaces(s) == {i \in 1..Len(s) : ~IsSpace(s[i])}

\* s without its leading and trailing whitespace
Trimmed(s) ==
    IF NonSpaces(s) = {} THEN <<>>
    ELSE SubSeq(s, SetMin(NonSpaces(s)), SetMax(NonSpaces(s)))

Colons(s) == {i \in 1..Len(s) : s[i] = COLON}

\* the text right of the first ':' of s, trimmed (s contains ':')
BlobOf(s) == Trimmed(SubSeq(s, SetMin(Colons(s)) + 1, Len(s)))

\* the quote character that is open after the first i characters of s
RECURSIVE OpenQuoteAfter(_, _)
OpenQuoteAfter(s, i) ==
    IF i = 0 THEN NoQuote
    ELSE LET before == OpenQuoteAfter(s, i - 1) IN
         IF before = NoQuote
         THEN IF s[i] \in Quotes THEN s[i] ELSE NoQuote
         ELSE IF s[i] = before THEN NoQuote ELSE before

\* the commas of s that are outside quotes
UnquotedCommas(s) ==
    {i \in 1..Len(s) : s[i] = COMMA /\ OpenQuoteAfter(s, i - 1) = NoQuote}

\* the quote characters of s that open or close a quote
QuoteMarks(s) ==
    {i \in 1..Len(s) : OpenQuoteAfter(s, i) # OpenQuoteAfter(s, i - 1)}

\* the characters of s strictly between positions lo and hi, the opening and
\* closing quote characters left out
RECURSIVE TextBetween(_, _, _)
TextBetween(s, lo, hi) ==
    IF lo + 1 >= hi THEN <<>>
    ELSE (IF lo + 1 \in QuoteMarks(s) THEN <<>> ELSE <<s[lo + 1]>>)
         \o TextBetween(s, lo + 1, hi)

NextCut(s, lo) ==
    IF \E c \in UnquotedCommas(s) : c > lo
    THEN SetMin({c \in UnquotedCommas(s) : c > lo})
    ELSE Len(s) + 1

\* one option per non-blank stretch between unquoted commas, left to right,
\* the stretch after the last unquoted comma included
RECURSIVE OptionsBetweenCommas(_, _)
OptionsBetweenCommas(s, lo) ==
    LET hi   == NextCut(s, lo)
        text == Trimmed(TextBetween(s, lo, hi))
        this == IF text = <<>> THEN <<>>
                ELSE <<Trimmed(StripQuotes(text))>>
    IN  IF hi > Len(s) THEN this ELSE this \o OptionsBetweenCommas(s, hi)

Pair(t, o) == [tag |-> "pair", type |-> t, options |-> o]

TokDone == tok_out.tag = "pair"

\* C2: a comma separates options only outside quotes (a quote is closed only
\* by the character that opened it); the options come back left to right and
\* the text after the last unquoted comma is the final option; the cities
\* example yields ("checkboxes", ["New York, NY", "Los Angeles, CA"]).
C2_SplitOutsideQuotes ==
    TokDone =>
        /\ Colons(tok_in) # {} =>
               tok_out.options = OptionsBetweenCommas(BlobOf(tok_in), 0)
        /\ tok_in = ExampleCities =>
               tok_out = Pair(CHECKBOXES,
                              <<Chars("New York, NY"), Chars("Los Angeles, CA")>>)

C2_Witness ==
    /\ TokDone
    /\ tok_in = ExampleCities
    /\ Len(tok_out.options) = 2
    /\ \E i \in 1..Len(tok_in) :
           tok_in[i] = COMMA /\ i \notin {12 + c : c \in UnquotedCommas(BlobOf(tok_in))}

Enclosed(t) == Len(t) >= 2 /\ t[1] \in Quotes /\ t[Len(t)] = t[1]

\* C3: quote characters are removed from an option only when a matching pair
\* encloses the whole trimmed option; a quote character in the middle of an
\* option (Bob's pick, 5" pipe) is kept.
C3_OnlyEnclosingQuotesStripped ==
    TokDone =>
        /\ tok_in = ExampleBob =>
               tok_out.options = <<Chars("Bob's pick"), Chars("Other")>>
        /\ tok_in = ExamplePipe =>
               tok_out.options = <<Chars("5\" pipe"), Chars("6\" pipe")>>
        /\ (Colons(tok_in) # {} /\ \A i \in 1..Len(tok_in) : tok_in[i] # COMMA) =>
               LET t == BlobOf(tok_in)
                   u == IF Enclosed(t) THEN Trimmed(SubSeq(t, 2, Len(t) - 1)) ELSE t
               IN  \A k \in 1..Len(tok_out.options) : tok_out.options[k] = u

\* C4: every option the tokenizer returns is non-empty and has no leading or
\* trailing whitespace.
C4_OptionsNonEmptyTrimmed ==
    TokDone =>
        \A k \in 1..Len(tok_out.options) :
            LET o == tok_out.options[k] IN
            o # <<>> /\ ~IsSpace(o[1]) /\ ~IsSpace(o[Len(o)])

\* C5: empty input gives (multiple choice, []); input without ':' gives the
\* whole trimmed input and no options; otherwise the type name is the trimmed
\* text left of the first ':' and every later ':' belongs to the options.
C5_TypeName ==
    TokDone =>
        /\ IF tok_in = <<>>
           THEN tok_out = Pair(MULTIPLE_CHOICE, <<>>)
           ELSE IF Colons(tok_in) = {}
           THEN tok_out = Pair(Trimmed(tok_in), <<>>)
           ELSE /\ tok_out.type =
                       Trimmed(SubSeq(tok_in, 1, SetMin(Colons(tok_in)) - 1))
                /\ tok_out.options = ParseOptions(BlobOf(tok_in))
        /\ tok_in = SHORT_ANSWER => tok_out = Pair(SHORT_ANSWER, <<>>)
        /\ tok_in = ExampleTimes =>
               tok_out = Pair(MULTIPLE_CHOICE, <<Chars("9:00"), Chars("10:00")>>)

C5_Witness ==
    /\ TokDone
    /\ tok_in = ExampleTimes
    /\ Cardinality(Colons(tok_in)) = 3
    /\ tok_out.options = <<Chars("9:00"), Chars("10:00")>>

\* the canonical type a lower-case, trimmed name stands for
ClaimedType(name) ==
    CASE name \in {Chars("text"), Chars("short_answer")}     -> SHORT_ANSWER
      [] name \in {Chars("long_answer"), Chars("textarea")}  -> PARAGRAPH
      [] name = Chars("radio")                               -> MULTIPLE_CHOICE
      [] name = Chars("select")                              -> DROPDOWN
      [] name \in {Chars("checkbox"), Chars("multi_select")} -> CHECKBOXES
      [] name \in {Chars("short answer"), Chars("paragraph"),
                   Chars("multiple choice"), Chars("checkboxes"),
                   Chars("dropdown")}                        -> name
      [] OTHER                                               -> MULTIPLE_CHOICE

NtDone == nt_out.tag # "NotRun"

\* C6: type normalization never fails; whatever the case and the surrounding
\* whitespace, text and short_answer give short answer, long_answer and
\* textarea paragraph, radio multiple choice, select dropdown, checkbox and
\* multi_select checkboxes, a canonical value itself, and every other string
\* multiple choice.
C6_NormalizeType ==
    NtDone => nt_out = Enum(ClaimedType(nt_base))

C6_Witness ==
    /\ NtDone
    /\ nt_base = Chars("textarea")
    /\ nt_in = <<SP>> \o Chars("TEXTAREA") \o <<"\t", SP>>
    /\ nt_out = Enum(PARAGRAPH)

QDone == q_out.tag # "NotRun"

ChoiceTypes == {MULTIPLE_CHOICE, CHECKBOXES, DROPDOWN}

\* the canonical type the keyword type stands for
TypeAsked(t) ==
    IF t.tag = "Missing" THEN MULTIPLE_CHOICE
    ELSE ClaimedType(Lower(Trimmed(t.v)))

\* the entries of l that are not blank, trimmed, in order
RECURSIVE NonBlankTrimmed(_)
NonBlankTrimmed(l) ==
    IF l = <<>> THEN <<>>
    ELSE (IF Trimmed(Head(l)) = <<>> THEN <<>> ELSE <<Trimmed(Head(l))>>)
         \o NonBlankTrimmed(Tail(l))

NamesType(error, type) == error.msg.arg = type

\* C7: for a choice type with an options value supplied, the stored options
\* are the supplied non-blank entries, trimmed, in order; with None, an empty
\* list or only blank entries construction fails with a validation error
\* whose message names the question type.
C7_ChoiceOptions ==
    (QDone /\ q_in.options.tag # "Missing" /\ TypeAsked(q_in.type) \in ChoiceTypes) =>
        LET kept == IF q_in.options.tag = "None" THEN <<>>
                    ELSE NonBlankTrimmed(q_in.options.v)
        IN  IF kept = <<>>
            THEN /\ q_out.tag = "raise"
                 /\ q_out.exc = "ValidationError"
                 /\ \E k \in 1..Len(q_out.errors) :
                        NamesType(q_out.errors[k], TypeAsked(q_in.type))
            ELSE q_out.tag = "Question" => q_out.options = List(kept)

\* C8: with type short answer and no options, construction succeeds for every
\* question text that is non-empty after trimming and stores the text without
\* its surrounding whitespace (unchanged when already trimmed); an empty or
\* whitespace-only text fails with a validation error.
C8_ShortAnswerRoundTrip ==
    (/\ QDone
     /\ q_in.question.tag = "str"
     /\ q_in.type.tag = "str" /\ TypeAsked(q_in.type) = SHORT_ANSWER
     /\ q_in.options.tag \in {"Missing", "None"}) =>
        LET q == q_in.question.v IN
        IF Trimmed(q) # <<>>
        THEN /\ q_out.tag = "Question"
             /\ q_out.question = Trimmed(q)
             /\ q = Trimmed(q) => q_out.question = q
             /\ q_out.type.v = SHORT_ANSWER
             /\ q_out.options = None
        ELSE q_out.tag = "raise" /\ q_out.exc = "ValidationError"

C8_Witness ==
    /\ QDone
    /\ q_in.question = Str(Chars("Who are you?\n"))
    /\ q_in.type = Str(SHORT_ANSWER)
    /\ q_in.options = None
    /\ q_out.tag = "Question"
    /\ q_out.question = Chars("Who are you?")

C8_WitnessBlank ==
    /\ QDone
    /\ q_in.question = Str(<<"\t", SP>>)
    /\ q_in.type = Str(Chars(" Text"))
    /\ q_in.options.tag = "Missing"
    /\ q_out.tag = "raise"

-----------------------------------------------------------------------------
(* What the parse paths are said to produce *)

\* every Question a parse path has produced so far
ParsedQuestions ==
    {js_questions[k] : k \in 1..Len(js_questions)}
    \cup {df_questions[k] : k \in 1..Len(df_questions)}

\* C1: every Question a parse path produces (a JSON element without an
\* options key or without a type key included) has options present if and
\* only if its type is multiple choice, checkboxes or dropdown.
C1_OptionsIffChoice ==
    \A q \in ParsedQuestions :
        (q.options # None) <=> (q.type.v \in ChoiceTypes)

\* the column of the table that holds the named field
ColumnOf(name) ==
    CHOOSE c \in 1..Len(df_columns) : Lower(Trimmed(df_columns[c])) = name

HasRequiredColumns ==
    \A name \in {COL_QUESTION, COL_TYPE} :
        \E c \in 1..Len(df_columns) : Lower(Trimmed(df_columns[c])) = name

\* the trimmed text of the question cell of data row r (1-based)
QuestionCellText(r) == Trimmed(PyStr(df_rows[r][ColumnOf(COL_QUESTION)]))

\* the data rows that are not skipped
CountedRows ==
    {r \in 1..Len(df_rows) :
        QuestionCellText(r) # <<>> /\ Lower(QuestionCellText(r)) # NAN_TEXT}

\* the k-th smallest element of S
RECURSIVE NthOf(_, _)
NthOf(S, k) == IF k = 1 THEN SetMin(S) ELSE NthOf(S \ {SetMin(S)}, k - 1)

\* C9: the questions of the returned document correspond exactly, and in row
\* order, to the data rows whose trimmed question cell is non-empty and is not
\* nan in any letter case; a skipped row never causes an error.
C9_RowsKept ==
    /\ (df_result.tag = "FormData") =>
          /\ Len(df_result.questions) = Cardinality(CountedRows)
          /\ \A k \in 1..Len(df_result.questions) :
                /\ df_result.questions[k].question =
                       QuestionCellText(NthOf(CountedRows, k))
                /\ df_kept[k] + 1 = NthOf(CountedRows, k)
    /\ (df_result.tag = "raise" /\ df_result.fmt = "Error parsing row {}: {}") =>
          df_result.pos \in CountedRows

\* a document is returned although a row with a blank question and a row with
\* the question NaN, each with a type cell that has no options, were skipped
C9_Witness ==
    /\ df_result.tag = "FormData"
    /\ Len(df_rows) = 2
    /\ Len(df_result.questions) = 1
    /\ \E r \in 1..Len(df_rows) :
          /\ r \notin CountedRows
          /\ df_rows[r][ColumnOf(COL_QUESTION)] = Str(Chars("NaN"))
          /\ df_rows[r][ColumnOf(COL_TYPE)] = Str(Chars("radio"))

\* the rows that are not skipped and fail to construct a Question
FailingRows ==
    {r \in CountedRows : RowQuestion(NormalizedColumns(df_columns), df_rows[r]).tag = "raise"}

\* C10: if a non-skipped row fails to construct a Question, the adapter
\* returns no document (even when earlier rows were valid) and fails with an
\* error that names the 1-based number of the first failing data row and
\* includes the underlying cause.
C10_FailFast ==
    (df_pc = "done" /\ HasRequiredColumns /\ FailingRows # {}) =>
        /\ df_result.tag = "raise"
        /\ df_result.exc = "ValueError"
        /\ df_result.fmt = "Error parsing row {}: {}"
        /\ df_result.pos = SetMin(FailingRows)
        /\ df_result.cause =
               RowQuestion(NormalizedColumns(df_columns), df_rows[SetMin(FailingRows)])

\* the second data row fails after the first produced a Question
C10_Witness ==
    /\ df_pc = "done"
    /\ HasRequiredColumns
    /\ FailingRows # {}
    /\ SetMin(FailingRows) = 2
    /\ Len(df_questions) = 1
    /\ df_result.tag = "raise"
    /\ df_result.pos = 2

-----------------------------------------------------------------------------
(* What the tabular adapter is said to do with the header *)

\* the header names, trimmed and in lower case
HeaderNames == {Lower(Trimmed(df_columns[c])) : c \in 1..Len(df_columns)}

MissingNames == {COL_QUESTION, COL_TYPE} \ HeaderNames

DfStarted == df_pc \in {"loop", "done"}

MissingColumnsError ==
    /\ df_result.tag = "raise"
    /\ df_result.fmt = "Missing required columns: {}"

\* C11: header names are matched after trimming and lower-casing; if question
\* or type is not among them the adapter fails, before any row is examined,
\* with an error that lists exactly the missing required names; a missing
\* description column is no error.
C11_MissingColumns ==
    DfStarted =>
        IF MissingNames # {}
        THEN /\ df_pc = "done"
             /\ MissingColumnsError
             /\ df_result.exc = "ValueError"
             /\ df_result.missing = MissingNames
             /\ df_idx = 0
             /\ df_questions = <<>>
        ELSE ~MissingColumnsError

\* only type is absent from a header with rows, and the error names type only
C11_Witness ==
    /\ df_pc = "done"
    /\ HeaderNames = {COL_QUESTION, COL_DESCRIPTION}
    /\ df_rows # <<>>
    /\ MissingColumnsError
    /\ df_result.missing = {COL_TYPE}

\* a header written " TYPE ", "question " and without description gives a document
C11_WitnessNoDescription ==
    /\ df_result.tag = "FormData"
    /\ COL_DESCRIPTION \notin HeaderNames

-----------------------------------------------------------------------------
(* Documents without questions *)

IsDocument(r) == r.tag = "FormData"

\* C12: no parse path returns a document with zero questions; a table whose
\* rows are all skipped or that has no data rows, and a JSON array with no
\* elements, fail with an error.
C12_NoEmptyDocument ==
    /\ \A r \in {js_result, df_result} :
          IsDocument(r) => Len(r.questions) >= 1
    /\ (df_pc = "done" /\ MissingNames = {} /\ CountedRows = {}) =>
          /\ df_result.tag = "raise"
          /\ df_result.exc = "ValueError"
          /\ df_result.fmt = "No valid questions found in the data"
    /\ (js_pc = "done" /\ js_data.tag = "list" /\ js_data.v = <<>>) =>
          /\ js_result.tag = "raise"
          /\ js_result.exc = "ValidationError"

\* a table with data rows, all of them skipped, has been refused
C12_Witness ==
    /\ df_pc = "done"
    /\ MissingNames = {}
    /\ Len(df_rows) = MaxRows
    /\ CountedRows = {}
    /\ df_result.tag = "raise"

\* an empty JSON array has been refused
C12_WitnessJson ==
    /\ js_pc = "done"
    /\ js_data = List(<<>>)
    /\ js_result.tag = "raise"

-----------------------------------------------------------------------------
(* What the tabular adapter hands to Question(...) *)

\* the trimmed text of the type cell of data row r (1-based)
TypeCellText(r) == Trimmed(PyStr(df_rows[r][ColumnOf(COL_TYPE)]))

ExampleHeader == <<COL_QUESTION, COL_DESCRIPTION, COL_TYPE>>

ExampleRow ==
    <<Str(Chars("Pick a fruit")), Str(Chars("Choose one")),
      Str(Chars("multiple choice: Apple, Banana"))>>

\* C13: for every non-skipped row the type handed to Question(...) is the
\* type name the tokenizer extracts from the trimmed type cell and the options
\* handed to it are the tokenizer's list, or None when that list is empty; the
\* Question's type is the normalization of that name.  The table with header
\* Question, Description, Type and the one row "Pick a fruit", "Choose one",
\* "multiple choice: Apple, Banana" gives exactly one Question, of type
\* multiple choice with options Apple, Banana.
C13_TypeAndOptions ==
    (DfStarted /\ MissingNames = {}) =>
        /\ Len(df_args) <= Cardinality(CountedRows)
        /\ \A k \in 1..Len(df_args) :
              LET tok == ParseTypeAndOptions(TypeCellText(NthOf(CountedRows, k))) IN
              /\ df_args[k].type = Str(tok.type)
              /\ df_args[k].options =
                     IF tok.options = <<>> THEN None ELSE List(tok.options)
        /\ \A k \in 1..Len(df_questions) :
              LET tok == ParseTypeAndOptions(TypeCellText(df_kept[k] + 1)) IN
              df_questions[k].type.v = NormalizeType(Str(tok.type)).v
        /\ (df_pc = "done" /\ df_columns = ExampleHeader /\ df_rows = <<ExampleRow>>) =>
              /\ IsDocument(df_result)
              /\ Len(df_result.questions) = 1
              /\ df_result.questions[1].question = Chars("Pick a fruit")
              /\ df_result.questions[1].description = Chars("Choose one")
              /\ df_result.questions[1].type.v = MULTIPLE_CHOICE
              /\ df_result.questions[1].options = List(<<Chars("Apple"), Chars("Banana")>>)

\* the example table has been parsed
C13_Witness ==
    /\ df_pc = "done"
    /\ df_columns = ExampleHeader
    /\ df_rows = <<ExampleRow>>
    /\ IsDocument(df_result)
    /\ Len(df_args) = 1

\* a row with options was followed by a row whose type cell has none
C13_WitnessNone ==
    /\ df_pc = "done"
    /\ MissingNames = {}
    /\ Len(df_args) = 2
    /\ df_args[1].options # None
    /\ df_args[2].options = None

-----------------------------------------------------------------------------
(* What the JSON path is said to return *)

JsDone == js_pc = "done"

\* the 1-based positions of the elements that are no object or that fail to
\* construct a Question
Offending ==
    {i \in 1..Len(js_data.v) :
        \/ js_data.v[i].tag # "dict"
        \/ NewQuestion(js_data.v[i].kw).tag = "raise"}

ExampleJson ==
    List(<<[tag |-> "dict",
            kw  |-> Kw(Str(Chars("Name?")), Missing, Str(SHORT_ANSWER), Missing)]>>)

\* C14: the JSON path returns a document with exactly one Question per array
\* element, in array order, or no document: a top-level value that is no
\* array fails, and an element that is no object or fails to construct fails
\* with an error naming the 1-based position of the first such element.
C14_JsonPath ==
    /\ IsDocument(js_result) =>
          /\ js_data.tag = "list"
          /\ Len(js_result.questions) = Len(js_data.v)
          /\ \A i \in 1..Len(js_data.v) :
                /\ js_data.v[i].tag = "dict"
                /\ js_result.questions[i].question =
                       Trimmed(js_data.v[i].kw.question.v)
                /\ js_result.questions[i] = NewQuestion(js_data.v[i].kw)
    /\ (JsDone /\ js_data.tag # "list") => js_result.tag = "raise"
    /\ (JsDone /\ js_data.tag = "list" /\ Offending # {}) =>
          /\ js_result.tag = "raise"
          /\ js_result.exc = "ValueError"
          /\ js_result.pos = SetMin(Offending)
          /\ js_result.fmt = IF js_data.v[SetMin(Offending)].tag # "dict"
                             THEN "Question {} must be an object"
                             ELSE "Error parsing question {}: {}"
    /\ (JsDone /\ js_data.tag = "list" /\ Offending = {} /\ js_data.v # <<>>) =>
          IsDocument(js_result)
    /\ (JsDone /\ js_data = ExampleJson) =>
          /\ IsDocument(js_result)
          /\ Len(js_result.questions) = 1
          /\ js_result.questions[1].options = None

\* the second element of an array is the first offending one
C14_Witness ==
    /\ JsDone
    /\ js_data.tag = "list"
    /\ Len(js_data.v) = 2
    /\ Offending # {}
    /\ SetMin(Offending) = 2
    /\ js_result.tag = "raise"
    /\ js_result.pos = 2

\* a document of two different questions has been returned
C14_WitnessDocument ==
    /\ IsDocument(js_result)
    /\ Len(js_data.v) = 2
    /\ js_data.v[1] # js_data.v[2]

\* the example array has been parsed into a document
C14_WitnessExample == JsDone /\ js_data = ExampleJson /\ IsDocument(js_result)

-----------------------------------------------------------------------------
(* Where the source router is said to send a source *)

\* sub occurs in s
Occurs(sub, s) ==
    \E i \in 0..(Len(s) - Len(sub)) : \A j \in 1..Len(sub) : s[i + j] = sub[j]

NoSlash(s) == \A i \in 1..Len(s) : s[i] # SLASH

UrlRule(s) == Occurs(DOCS_HOST, s) /\ Occurs(SPREADSHEETS, s)

LengthRule(s) == Len(s) > 20 /\ NoSlash(s)

DetDone == det_out # NotRun

\* s names a file of the extension ext, in any letter case
HasExtension(s, ext) ==
    /\ Len(s) > Len(ext)
    /\ Lower(SubSeq(s, Len(s) - Len(ext) + 1, Len(s))) = ext
    /\ s[Len(s) - Len(ext)] # SLASH

\* C15: without a type hint a source is sent to the remote-spreadsheet
\* adapter exactly when it contains both docs.google.com and spreadsheets, or
\* is longer than 20 characters and has no slash (25 characters without a
\* slash: yes; 20: not by the length rule), and this is decided first, also
\* for the name of an existing local .json or .csv file.
C15_SheetsFirst ==
    DetDone =>
        /\ (det_out.v = SHEETS_TYPE) <=> (UrlRule(det_source) \/ LengthRule(det_source))
        /\ (Len(det_source) = 25 /\ NoSlash(det_source)) => det_out.v = SHEETS_TYPE
        /\ (Len(det_source) = 20 /\ NoSlash(det_source) /\ ~UrlRule(det_source)) =>
              det_out.v # SHEETS_TYPE

\* an existing local .json file with a name of 21 characters is taken for a sheet
C15_Witness ==
    /\ DetDone
    /\ det_file.tag = "file"
    /\ HasExtension(det_source, EXT_JSON)
    /\ Len(det_source) = 21
    /\ NoSlash(det_source)
    /\ ~UrlRule(det_source)
    /\ det_out.v = SHEETS_TYPE

\* a name of 20 characters without a slash is not taken for a sheet
C15_WitnessTwenty ==
    /\ DetDone
    /\ Len(det_source) = 20
    /\ NoSlash(det_source)
    /\ det_out.v # SHEETS_TYPE

\* the first character of the content that is no whitespace is c
ContentStartsWith(c) ==
    /\ det_file.content.tag = "str"
    /\ Trimmed(det_file.content.v) # <<>>
    /\ Trimmed(det_file.content.v)[1] = c

ContentHasComma ==
    /\ det_file.content.tag = "str"
    /\ Occurs(<<COMMA>>, det_file.content.v)

\* C16: when neither spreadsheet rule matches, an existing local file is JSON
\* for the extension .json and tabular for .csv, in any letter case; for any
\* other extension it is JSON if the stripped content starts with [ or {,
\* else tabular if the content has a comma; in every remaining case (no
\* existing file, content matching neither test, unreadable file) the result
\* is JSON.
C16_FileDetection ==
    (DetDone /\ ~UrlRule(det_source) /\ ~LengthRule(det_source)) =>
        det_out.v =
            IF det_file.tag # "file" THEN JSON_TYPE
            ELSE IF HasExtension(det_source, EXT_JSON) THEN JSON_TYPE
            ELSE IF HasExtension(det_source, EXT_CSV) THEN CSV_TYPE
            ELSE IF ContentStartsWith("[") \/ ContentStartsWith("{") THEN JSON_TYPE
            ELSE IF ContentHasComma THEN CSV_TYPE
            ELSE JSON_TYPE

\* an existing file of another extension whose content has a comma is tabular
C16_Witness ==
    /\ DetDone
    /\ det_file.tag = "file"
    /\ HasExtension(det_source, Chars(".txt"))
    /\ ContentHasComma
    /\ det_out.v = CSV_TYPE

\* a name ending in .csv that is no existing file is JSON
C16_WitnessAbsent ==
    /\ DetDone
    /\ det_file = Absent
    /\ HasExtension(det_source, EXT_CSV)
    /\ det_out.v = JSON_TYPE

\* an existing file written .Csv is tabular whatever it holds
C16_WitnessCase ==
    /\ DetDone
    /\ det_file.tag = "file"
    /\ ContentStartsWith("[")
    /\ HasExtension(det_source, EXT_CSV)
    /\ ~Occurs(EXT_CSV, det_source)
    /\ det_out.v = CSV_TYPE

-----------------------------------------------------------------------------
(* What the sheet identifier is said to be *)

\* the longest stretch of id characters of s that starts at position i
IdSegment(s, i) ==
    LET stop == SetMin({k \in i..(Len(s) + 1) : k > Len(s) \/ ~IsIdChar(s[k])})
    IN  SubSeq(s, i, stop - 1)

BareSource(s) == NoSlash(s) /\ Len(s) > 20

\* the non-empty id segments that follow /spreadsheets/d/
PathSegments(s) ==
    {IdSegment(s, i + Len(SHEET_PATH)) :
        i \in {x \in 1..Len(s) : HoldsAt(s, SHEET_PATH, x)}} \ {<<>>}

\* the id segments of at least 30 characters that follow a / or = after
\* docs.google.com
LongTokens(s) ==
    {t \in {IdSegment(s, q + 1) :
               q \in {x \in 1..Len(s) :
                        /\ s[x] \in {SLASH, "="}
                        /\ \E h \in 1..x : HoldsAt(s, DOCS_HOST, h)
                                           /\ h + Len(DOCS_HOST) <= x}} :
        Len(t) >= 30}

SidExtracted == sid_pc \in {"fetch", "parse", "done"}

NeverFetched == sid_calls = <<>> /\ IdleDf

\* C17: a source without a slash and longer than 20 characters is the sheet
\* identifier as it is; otherwise the identifier is the id segment that
\* follows /spreadsheets/d/, or else a token of at least 30 id characters
\* that follows / or = in a docs.google.com URL; if nothing matches the parse
\* fails and the remote table is never fetched.  The collaborator is opened
\* with that identifier.
C17_SheetId ==
    SidExtracted =>
        /\ IF BareSource(sid_source)
           THEN sid_key = Str(sid_source)
           ELSE IF PathSegments(sid_source) # {}
           THEN sid_key.tag = "str" /\ sid_key.v \in PathSegments(sid_source)
           ELSE IF LongTokens(sid_source) # {}
           THEN sid_key.tag = "str" /\ sid_key.v \in LongTokens(sid_source)
           ELSE /\ sid_key = None
                /\ sid_pc = "done"
                /\ sid_result.tag = "raise"
                /\ sid_result.exc = "ValueError"
                /\ sid_result.fmt = "Could not extract sheet ID from: {}"
                /\ NeverFetched
        /\ \A k \in 1..Len(sid_calls) :
              sid_calls[k].op = "open_by_key" =>
                  sid_calls[k].arg = sid_key /\ sid_key # None

\* a docs.google.com URL with a token of 29 characters has been refused
\* without a call to the collaborator
C17_Witness ==
    /\ sid_pc = "done"
    /\ Occurs(DOCS_HOST, sid_source)
    /\ Occurs(IdToken(29), sid_source)
    /\ sid_result.tag = "raise"
    /\ sid_result.fmt = "Could not extract sheet ID from: {}"
    /\ NeverFetched

\* a bare identifier of 21 characters has been handed to the collaborator
C17_WitnessBare ==
    /\ sid_source = IdToken(21)
    /\ \E k \in 1..Len(sid_calls) : sid_calls[k] = Call("open_by_key", Str(sid_source))

\* a token of 30 characters after ?id= has been handed to the collaborator
C17_WitnessToken ==
    /\ PathSegments(sid_source) = {}
    /\ ~BareSource(sid_source)
    /\ \E k \in 1..Len(sid_calls) : sid_calls[k] = Call("open_by_key", Str(IdToken(30)))

\* the id segment after /spreadsheets/d/ has been handed to the collaborator
C17_WitnessPath ==
    /\ Occurs(SHEET_PATH \o IdToken(5) \o Chars("/edit"), sid_source)
    /\ \E k \in 1..Len(sid_calls) : sid_calls[k] = Call("open_by_key", Str(IdToken(5)))

-----------------------------------------------------------------------------
(* What the request builder and the remote write are said to do *)

ReqDone == req_out # NotRun

\* the kind of question said to be built for a canonical type
SaidQuestion(type, options) ==
    CASE type = SHORT_ANSWER    -> [tag |-> "textQuestion", paragraph |-> FALSE]
      [] type = PARAGRAPH       -> [tag |-> "textQuestion", paragraph |-> TRUE]
      [] type = MULTIPLE_CHOICE ->
            [tag |-> "choiceQuestion", type |-> "RADIO", options |-> options]
      [] type = CHECKBOXES      ->
            [tag |-> "choiceQuestion", type |-> "CHECKBOX", options |-> options]
      [] type = DROPDOWN        ->
            [tag |-> "choiceQuestion", type |-> "DROP_DOWN", options |-> options]

\* one {value} entry per option, in the original order
SaidOptions(q) ==
    IF q.options = None THEN <<>>
    ELSE [k \in 1..Len(q.options.v) |-> [value |-> q.options.v[k]]]

\* the request is the one said for the question q at the position index
IsSaidRequest(request, q, index) ==
    /\ request.tag = "createItem"
    /\ request.location.index = index
    /\ request.item.title = q.question
    /\ request.item.description = q.description
    /\ request.item.body.tag = "questionItem"
    /\ request.item.body.question = SaidQuestion(q.type.v, SaidOptions(q))
    /\ "required" \notin DOMAIN request.item.body.question

\* C19: for every validated Question of each canonical type, building its
\* insert-item request succeeds and yields an item with the question text as
\* title, the description as description and the question kind of its type
\* (text, paragraph text, RADIO, CHECKBOX, DROP_DOWN with one {value} per
\* option in order), and nothing marked required.
C19_RequestShape ==
    ReqDone => IsSaidRequest(req_out, req_question, req_index)

ApiDone == api_pc = "done"

\* the positions in the history of the calls of an operation
CallsOf(op) == {k \in 1..Len(api_calls) : api_calls[k].op = op}

ShellCreated == api_remote # None

\* C18: creating a form from a validated document issues one create-shell
\* operation carrying title and description, and once that has succeeded one
\* batch-insert, after it, whose list has one insert request per question, in
\* document order, the request of position i carrying the location index i.
C18_ShellThenBatch ==
    /\ Cardinality(CallsOf("forms.create")) <= 1
    /\ \A k \in CallsOf("forms.create") :
          DOMAIN api_calls[k].arg = {"title", "description"}
    /\ \A k \in CallsOf("forms.batchUpdate") :
          ShellCreated /\ \E c \in CallsOf("forms.create") : c < k
    /\ (ApiDone /\ ShellCreated) =>
          /\ Cardinality(CallsOf("forms.create")) = 1
          /\ Cardinality(CallsOf("forms.batchUpdate")) = 1
          /\ \A k \in CallsOf("forms.batchUpdate") :
                /\ Len(api_calls[k].arg) = Len(api_form.questions)
                /\ \A i \in 1..Len(api_form.questions) :
                      IsSaidRequest(api_calls[k].arg[i], api_form.questions[i], i - 1)

\* C20: the remote write is not transactional.  When the insertion step fails
\* after the shell was created, create_form raises to its caller, no delete is
\* sent and the form stays at the service without items; when the creation of
\* the shell fails, there is no form and no insertion is attempted.
C20_NotTransactional ==
    /\ CallsOf("forms.delete") = {} /\ CallsOf("drive.files.delete") = {}
    /\ (ApiDone /\ ShellCreated /\ api_remote.items = <<>>) =>
          /\ api_result.tag = "raise"
          /\ api_result.exc = "ValueError"
    /\ (ApiDone /\ ShellCreated /\ api_result.tag = "raise") =>
          /\ api_remote.id = FORM_ID
          /\ api_remote.items = <<>>
    /\ (ApiDone /\ ~ShellCreated) =>
          /\ api_result.tag = "raise"
          /\ CallsOf("forms.batchUpdate") = {}
          /\ Cardinality(CallsOf("forms.create")) <= 1
          /\ \A k \in 1..Len(api_calls) : api_calls[k].op = "forms.create"

\* the insertion step has failed after the shell was created: the caller has
\* the error and the empty form is still there
C20_Witness ==
    /\ ApiDone
    /\ ShellCreated
    /\ api_remote.items = <<>>
    /\ api_result.tag = "raise"
    /\ api_result.fmt = "Failed to create form: {}"
    /\ Len(api_form.questions) = 2
    /\ CallsOf("drive.files.move") # {}

\* the creation of the shell has been refused by the service
C20_WitnessNoShell ==
    /\ ApiDone
    /\ ~ShellCreated
    /\ api_calls = <<Call("forms.create", ShellBody(api_form, api_new_folder))>>
    /\ api_result.fmt = "Google Forms API error: {}"

-----------------------------------------------------------------------------
(* What the tabular adapter is said to do with a type it falls back on *)

\* the names that stand for a type: the aliases and the canonical values
RecognizedNames ==
    {Chars("text"), Chars("short_answer"), Chars("long_answer"), Chars("textarea"),
     Chars("radio"), Chars("select"), Chars("checkbox"), Chars("multi_select"),
     Chars("short answer"), Chars("paragraph"), Chars("multiple choice"),
     Chars("checkboxes"), Chars("dropdown")}

\* the trimmed text of the type cell of data row r (1-based)
TypeCellTrimmed(r) == Trimmed(PyStr(df_rows[r][ColumnOf(COL_TYPE)]))

\* the type name of the cell: what stands before the first colon
TypeNameOf(r) ==
    LET t == TypeCellTrimmed(r)
        c == {i \in 1..Len(t) : t[i] = COLON}
    IN  Lower(Trimmed(IF c = {} THEN t ELSE SubSeq(t, 1, SetMin(c) - 1)))

\* the type cell of row r is blank, reads nan or names no type
FallbackRow(r) == TypeNameOf(r) \notin RecognizedNames

\* the type cell of row r supplies an option that is not blank
SuppliesOption(r) ==
    LET options == ParseTypeAndOptions(TypeCellTrimmed(r)).options IN
    \E k \in 1..Len(options) : Trimmed(options[k]) # <<>>

\* the data row r has produced a Question
RowKept(r) == \E k \in 1..Len(df_kept) : df_kept[k] + 1 = r

\* the Question the data row r has produced
QuestionOfRow(r) == df_questions[CHOOSE k \in 1..Len(df_kept) : df_kept[k] + 1 = r]

\* C24: in the tabular path a row with a non-blank question whose type cell is
\* blank, reads nan or names no known type, and that carries no options, never
\* produces a Question: the parse aborts with a row-numbered error.  The
\* fallback to multiple choice produces a Question only when the type cell
\* supplies at least one non-blank option.
C24_FallbackNeedsOptions ==
    HasRequiredColumns =>
        \A r \in CountedRows :
            FallbackRow(r) =>
                /\ RowKept(r) =>
                      /\ SuppliesOption(r)
                      /\ QuestionOfRow(r).type.v = MULTIPLE_CHOICE
                      /\ QuestionOfRow(r).options # None
                /\ (df_pc = "done" /\ ~RowKept(r)) =>
                      /\ df_result.tag = "raise"
                      /\ df_result.exc = "ValueError"
                      /\ df_result.fmt = "Error parsing row {}: {}"
                      /\ df_result.pos <= r

\* the second row, with the type cell nan and no options, has aborted the
\* parse after the first row produced a Question
C24_Witness ==
    /\ df_pc = "done"
    /\ HasRequiredColumns
    /\ 2 \in CountedRows
    /\ df_rows[2][ColumnOf(COL_TYPE)] = NaN
    /\ Len(df_questions) = 1
    /\ df_result.tag = "raise"
    /\ df_result.pos = 2

\* a row with an unknown type name and options has produced a multiple choice
\* Question
C24_WitnessOptions ==
    /\ HasRequiredColumns
    /\ \E r \in CountedRows :
          /\ FallbackRow(r)
          /\ TypeNameOf(r) = Chars("bogus")
          /\ RowKept(r)
          /\ QuestionOfRow(r).options = List(<<Chars("a"), Chars("b")>>)

\* a row with an unknown type name and no options has aborted the parse
C24_WitnessUnknown ==
    /\ df_pc = "done"
    /\ df_result.tag = "raise"
    /\ HasRequiredColumns
    /\ df_result.pos \in CountedRows
    /\ TypeCellTrimmed(df_result.pos) = Chars("bogus")

\* a row with a blank type cell has aborted the parse
C24_WitnessBlank ==
    /\ df_pc = "done"
    /\ df_result.tag = "raise"
    /\ HasRequiredColumns
    /\ df_result.pos \in CountedRows
    /\ TypeCellTrimmed(df_result.pos) = <<>>

-----------------------------------------------------------------------------
(* What the OAuth2 flow is said to return *)

AuthDone == auth_out # NotRun

\* C26: the OAuth2 flow returns None or credentials that are valid;
\* credentials loaded from the saved token that are not valid are returned,
\* and written back, only after a successful refresh or interactive login.
C26_ValidOrNone ==
    (AuthDone /\ auth_out.flow_ran) =>
        /\ auth_out.creds # None => Valid(auth_out.creds)
        /\ auth_out.saved # None => Valid(auth_out.saved)

-----------------------------------------------------------------------------
(* What the application is said to do with a source *)

AppDone == app_pc = "done"

\* the error the parser raised, before parse_input reports it
Underlying == ParserResult

\* the source names a local file that does not exist
SourceFileAbsent == app_type \in {JSON_TYPE, CSV_TYPE} /\ app_file = Absent

\* C21: a failure of the top-level parse is reported with the most specific
\* kind: an absent source file as the not-found kind, which the caller can
\* tell from the format and validation kinds; and the message of the reported
\* error contains the original underlying message.
C21_ErrorKinds ==
    (app_op = PARSE_INPUT /\ AppDone /\ app_result.tag = "raise") =>
        /\ (app_result.exc = "FileNotFoundError") <=> SourceFileAbsent
        /\ app_type \in {JSON_TYPE, CSV_TYPE, SHEETS_TYPE} =>
              app_result.cause.e = Underlying

\* the parser called by parse_input has raised, or there was none to call
ParseHasFailed ==
    \/ app_pc # "start" /\ app_type \notin {JSON_TYPE, CSV_TYPE, SHEETS_TYPE}
    \/ ParserResult.tag = "raise"

NoClient == auth_env = None /\ auth_out = NotRun

NoRemoteWrite == api_pc = "idle" /\ api_calls = <<>> /\ api_remote = None

C23_WitnessParsed ==
    /\ app_op = CREATE_FORM
    /\ app_parsed.tag = "FormData"
    /\ auth_out # NotRun
    /\ api_remote # None

\* the create-shell requests sent so far
ShellCalls == {k \in 1..Len(api_calls) : api_calls[k].op = "forms.create"}

\* the insert requests sent so far
BatchCalls == {k \in 1..Len(api_calls) : api_calls[k].op = "forms.batchUpdate"}

\* the questions of the requests are those of the document, in order
CarriesQuestions(requests, questions) ==
    /\ Len(requests) = Len(questions)
    /\ \A i \in 1..Len(questions) : requests[i].item.title = questions[i].question

\* the text a caller argument puts in the place of a field of the document
Replaced(argument, parsed) ==
    IF argument # None /\ argument.v # <<>> THEN argument.v ELSE parsed

C22_WitnessParsed ==
    /\ app_op = CREATE_FORM
    /\ app_title = Str(<<>>)
    /\ app_description = None
    /\ api_remote # None
    /\ api_remote.title = app_parsed.title

\* automatic detection has sent the source to the remote-spreadsheet adapter
RoutedToSheets == app_hint = None /\ app_type = SHEETS_TYPE /\ sid_pc = "done"

NoSheetId ==
    /\ sid_result.tag = "raise"
    /\ sid_result.fmt = "Could not extract sheet ID from: {}"

C25_WitnessBare ==
    /\ RoutedToSheets
    /\ LengthRule(app_source)
    /\ Len(app_source) = 21
    /\ sid_key = Str(app_source)

\* a spreadsheets URL with an identifier was sent to the adapter and accepted
C25_WitnessUrl ==
    /\ RoutedToSheets
    /\ UrlRule(app_source)
    /\ sid_key = Str(IdToken(5))

\* the sum of the counts of a dictionary of counts
RECURSIVE SumOf(_)
SumOf(counts) ==
    IF DOMAIN counts = {} THEN 0
    ELSE LET t == CHOOSE x \in DOMAIN counts : TRUE IN
         counts[t] + SumOf([x \in DOMAIN counts \ {t} |-> counts[x]])

ResultKeys == {"valid", "question_count", "question_types", "warnings", "questions"}

\* C28: validate_input never raises: it returns a result in which either valid
\* is true, question_count is the number of entries of questions (at least 1)
\* and the per-type counts sum to question_count, or valid is false, an error
\* message is present, question_count is 0 and questions, question_types and
\* warnings are empty.
C28_ValidateNeverRaises ==
    (app_op = VALIDATE_INPUT /\ AppDone) =>
        /\ ResultKeys \subseteq DOMAIN app_result
        /\ app_result.valid \in BOOLEAN
        /\ app_result.valid <=> ~ParseHasFailed
        /\ IF app_result.valid
           THEN /\ app_result.question_count = Len(app_result.questions)
                /\ app_result.question_count >= 1
                /\ SumOf(app_result.question_types) = app_result.question_count
           ELSE /\ "error" \in DOMAIN app_result
                /\ app_result.error.tag = "raise"
                /\ app_result.question_count = 0
                /\ app_result.questions = <<>>
                /\ DOMAIN app_result.question_types = {}
                /\ app_result.warnings = <<>>

\* a valid result for two questions of two types, with a warning for the one
\* that has no options
C28_Witness ==
    /\ app_op = VALIDATE_INPUT
    /\ AppDone
    /\ app_result.valid
    /\ app_result.question_count = 2
    /\ Cardinality(DOMAIN app_result.question_types) = 2
    /\ Len(app_result.warnings) = 1

\* an invalid result for a source whose file does not exist
C28_WitnessInvalid ==
    /\ app_op = VALIDATE_INPUT
    /\ AppDone
    /\ ~app_result.valid
    /\ SourceFileAbsent
    /\ app_result.error.cause.e.exc = "FileNotFoundError"

\* the folder path was asked for and could not be found or created
FolderPathFailed ==
    /\ api_new_folder # None
    /\ api_pc \in {"move", "insert", "done"}
    /\ api_target = None

\* C27: after the shell is created a failure of a Drive-side step (rename,
\* folder path, move) never aborts the creation: the questions are still
\* inserted and the result is returned.  When the folder path fails the move
\* is skipped, even if the caller gave a folder_id.
C27_DriveFailuresDoNotAbort ==
    /\ FolderPathFailed => CallsOf("drive.files.move") = {} /\ CallsOf("drive.files.get") = {}
    /\ (ApiDone /\ ShellCreated) =>
          /\ api_result.tag = "created"
          /\ Len(api_remote.items) = Len(api_form.questions)

=============================================================================
